---- MODULE Spec2Model ----
(***************************************************************************)
(* A model of socketsio: the DataStore (pubsub/store.py), the socket       *)
(* lifecycle of Socket / Client / Server / ServerSideClient (sockets.py,   *)
(* client.py, server.py), the BHP / BCP framing over a TCP byte stream     *)
(* (protocols.py) and the per-client StreamController of a                 *)
(* SubscriptionStreamer (pubsub/streamer.py, queue.py).                    *)
(*                                                                         *)
(* Python values are modelled as follows: None is the string "None", a     *)
(* dict is a function whose DOMAIN is its key set, a list is a sequence,   *)
(* bytes are sequences of one-character strings, and a call that may raise *)
(* returns a record whose err field names the exception ("none" when the   *)
(* call returns normally).                                                 *)
(***************************************************************************)
EXTENDS Integers, Sequences, FiniteSets, TLC

(***************************************************************************)
(* Bounds of the model.                                                    *)
(***************************************************************************)
MaxLimit == 2       \* DataStore.limit ranges over 0 (None) .. MaxLimit
MaxInserts == 3     \* Data objects a producer creates in one behaviour
MaxTime == 1        \* Data.time and the clock range over 0 .. MaxTime
MaxCalls == 4       \* method calls made on one socket object in one behaviour
MaxSends == 2       \* frames written to one TCP stream in one behaviour
MaxPayload == 2     \* bytes in one payload
MaxChunk == 2       \* BCP chunk size, and explicit buffer arguments
MaxReceives == 2    \* receive calls made on one TCP stream in one behaviour
MaxShort == 1       \* bytes by which one short read falls short
MaxRequests == 3    \* frames one client sends to its controller
MaxProduce == 2     \* Data objects inserted while a client is streamed to
MaxHandles == 2     \* calls of Server.handle in one behaviour
MaxFrames == 3      \* frames appended to one send queue in one behaviour

HEADER == 32        \* BHP.HEADER
BUFFER == 1024      \* BufferedProtocol.BUFFER

Keys == {"a", "b"}  \* event names

None == "None"

VARIABLES
    storage,        \* DataStore.storage : dict[str, list[Data]]
    limit,          \* DataStore.limit (0 stands for None / 0: no cap)
    inserted,       \* history: per key, what the bucket held when pop / empty /
                    \* clear last cut it (nothing before that), followed by
                    \* every Data passed to insert since, in order
    nextId,         \* serial number of the next Data the producer creates
    clock,          \* the producer's last reading of time.time()
    storeCall       \* the last DataStore call: its name, arguments, result and
                    \* the storage it started from

VARIABLES
    sock,           \* one Socket / Client / Server / ServerSideClient object
                    \* (its fields, the state of its raw socket, and history)
    sockCall        \* the last method call on it: name, exception, I/O done

storeVars == <<storage, limit, inserted, nextId, clock, storeCall>>

VARIABLES
    link,           \* the connection's configuration: the protocol of the
                    \* receiving Socket ("BHP" or "BCP"), BCP's buffer, and
                    \* whether the transport delivers short reads, and
                    \* whether the sending peer has closed its end
    wire,           \* the bytes written to the TCP stream and not yet read
    expect,         \* history: the payloads sent whose receive is still due
    sends,          \* history: number of frames sent
    receives,       \* history: number of receive calls started
    asSocket,       \* history: every receive call so far passed neither a
                    \* buffer nor a length, as Socket.receive does
    rx,             \* the receive call in progress (its pending inner receives)
    rxCall          \* the last receive call that returned or raised

sockVars == <<sock, sockCall>>

wireVars == <<link, wire, expect, sends, receives, asSocket, rx, rxCall>>

VARIABLES
    streamer,       \* the SubscriptionStreamer: whether authenticate,
                    \* on_invalid and on_unauthenticated are set, and whether
                    \* the controller is in clients and in subscribers
    controller,     \* the StreamController of one client: authenticated, the
                    \* state of its three operators, whether its socket is closed
    subscriber,     \* its ServerSubscriber: events and data
    sendQueue,      \* controller.queue_socket.queue
    out,            \* history: the messages passed to socket.send, in order
    senderTick,     \* the sender thread's position in its tick
    receiverTick,   \* the receiver thread's position in its tick
    requests,       \* history: number of frames received from the client
    rcv,            \* the last receiver tick that ended
    snd             \* the last enqueue made by the sender

streamVars == <<streamer, controller, subscriber, sendQueue, out, senderTick,
                receiverTick, requests, rcv, snd>>

VARIABLES
    server,         \* a listening Server: reusable, sequential, closed, its
                    \* connection and whether the raw socket is open
    clients,        \* the ServerSideClient of each call of handle
    worker,         \* the thread that accepts: its position and the round
    closing,        \* the position of a Server.close() call
    handles         \* history: number of handle calls

acceptVars == <<server, clients, worker, closing, handles>>

VARIABLES
    senderQueue,    \* a SocketSenderQueue: its queue, the state of its
                    \* Operator loop, its socket, whether close() has returned
    drainTick,      \* the operator thread's position in send_queue
    flushCall,      \* a call of send_all_queue: its position, the queue at
                    \* the call, what it passed to socket.send, and whether a
                    \* send or a tick of the operator ran beside it
    passed,         \* history: the frames socket.send was called with
    appended,       \* history: the frames appended to the queue, in order
    poppedClosed    \* history: a tick popped a frame after close() returned

queueVars == <<senderQueue, drainTick, flushCall, passed, appended,
               poppedClosed>>

VARIABLES
    fresh,          \* history: the events of the subscribe requests processed
                    \* since the sender last started a tick
    pending,        \* history: the events that were fresh when the sender
                    \* tick in progress started
    left            \* history: the events of the unsubscribe requests
                    \* processed, until a subscribe request names them again

memberVars == <<fresh, pending, left>>

VARIABLES
    wiring          \* a StreamController as __init__ wires it: whether a
                    \* termination was installed on its queue before and
                    \* whether it has one of its own, the state of its three
                    \* operators and of its socket, how far the termination
                    \* action of the queue has got and the calls it has made

termVars == <<wiring>>

VARIABLES
    timing          \* the delay of a Streamer and of its controllers, with
                    \* the delay of each controller's sender and receiver
                    \* operator, in microseconds

delayVars == <<timing>>

VARIABLES
    shared          \* a DataStore shared by a producer thread and a reader
                    \* thread: its storage and limit, and how far each
                    \* thread has got in the method it is executing

raceVars == <<shared>>

VARIABLES
    registry        \* Streamer.clients as the accept thread and the workers
                    \* change it while the thread that owns the streamer
                    \* iterates over it

registryVars == <<registry>>

VARIABLES
    service         \* a ServiceInterface: its flags, its timeout thread and
                    \* the clock

serviceVars == <<service>>

VARIABLES
    reading         \* the event set of one ServerSubscriber, as the
                    \* receiver of its controller changes it while the
                    \* sender tick iterates over it in fetch_all

readingVars == <<reading>>

VARIABLES
    session         \* a ClientSubscriber and the ServerSubscriber of its
                    \* connection: the event set of each, the requests on
                    \* their way, and whether the controller is authenticated

sessionVars == <<session>>

restVars == <<delayVars, raceVars, registryVars, serviceVars, readingVars,
              sessionVars>>

vars == <<storeVars, sockVars, wireVars, streamVars, acceptVars, queueVars,
          memberVars, termVars, restVars>>

(***************************************************************************)
(* Helpers for dicts and lists.                                            *)
(***************************************************************************)
EmptyDict == [k \in {} |-> None]

DictSet(d, k, v) == [x \in (DOMAIN d) \cup {k} |-> IF x = k THEN v ELSE d[x]]

Last(q) == q[Len(q)]

Front(q) == SubSeq(q, 1, Len(q) - 1)

(***************************************************************************)
(* pubsub/data.py: Data(name, time, data).  The data field carries the     *)
(* serial number of the object, so that two objects of one name and time   *)
(* are still told apart.                                                   *)
(***************************************************************************)
Data(name, time, data) == [name |-> name, time |-> time, data |-> data]

(***************************************************************************)
(* pubsub/store.py                                                         *)
(***************************************************************************)

\* a plausible slip of the eviction: pop() instead of pop(0)
RECURSIVE TrimQueueNewest(_, _)
TrimQueueNewest(queue, lim) ==
    IF lim # 0 /\ Len(queue) > lim
    THEN TrimQueueNewest(Front(queue), lim)
    ELSE queue

\* insert, lines 40-42: while len(queue) > self.limit: queue.pop(0)
RECURSIVE TrimQueue(_, _)
TrimQueue(queue, lim) ==
    IF lim # 0 /\ Len(queue) > lim
    THEN TrimQueue(Tail(queue), lim)
    ELSE queue

\* DataStore.insert: setdefault, append, evict
insert(st, lim, d) ==
    LET queue == IF d.name \in DOMAIN st THEN st[d.name] ELSE <<>>
    IN  DictSet(st, d.name, TrimQueue(Append(queue, d), lim))

\* DataStore.insert_all: insert applied to each element in order
RECURSIVE insert_all(_, _, _)
insert_all(st, lim, ds) ==
    IF ds = <<>> THEN st
    ELSE insert_all(insert(st, lim, Head(ds)), lim, Tail(ds))

\* DataStore.is_valid_key: return key not in self.storage
is_valid_key(st, key) == key \notin DOMAIN st

\* DataStore.validate_key: raises KeyError when is_valid_key(key)
validate_key(st, key) ==
    IF is_valid_key(st, key) THEN "KeyError" ELSE "none"

\* a fetch that reads the oldest entry
fetchOldest(st, key) ==
    IF validate_key(st, key) # "none" THEN [err |-> "KeyError", val |-> None]
    ELSE IF Len(st[key]) = 0 THEN [err |-> "ValueError", val |-> None]
    ELSE [err |-> "none", val |-> Head(st[key])]

\* DataStore.fetch
fetch(st, key) ==
    IF validate_key(st, key) # "none" THEN [err |-> "KeyError", val |-> None]
    ELSE IF Len(st[key]) = 0 THEN [err |-> "ValueError", val |-> None]
    ELSE [err |-> "none", val |-> Last(st[key])]

\* a pop that returns the last entry and leaves it in the bucket
popKeep(st, key) ==
    IF validate_key(st, key) # "none"
    THEN [err |-> "KeyError", val |-> None, st |-> st]
    ELSE IF Len(st[key]) = 0
    THEN [err |-> "ValueError", val |-> None, st |-> st]
    ELSE [err |-> "none", val |-> Last(st[key]), st |-> st]

\* DataStore.pop: the result and the storage after the call
pop(st, key) ==
    IF validate_key(st, key) # "none"
    THEN [err |-> "KeyError", val |-> None, st |-> st]
    ELSE IF Len(st[key]) = 0
    THEN [err |-> "ValueError", val |-> None, st |-> st]
    ELSE [err |-> "none", val |-> Last(st[key]),
          st |-> [st EXCEPT ![key] = Front(st[key])]]

\* DataStore.fetch_all over the keys in iteration order; lim is the `limit`
\* argument (0 for None) and now the value of time.time()
RECURSIVE fetch_all_from(_, _, _, _, _, _)
fetch_all_from(st, keys, adjust, lim, now, data) ==
    IF keys = <<>> THEN [err |-> "none", val |-> data]
    ELSE LET key == Head(keys)
             r == fetch(st, key)
         IN  IF r.err # "none"
             THEN IF adjust
                  THEN fetch_all_from(st, Tail(keys), adjust, lim, now, data)
                  ELSE [err |-> r.err, val |-> None]
             ELSE IF ~(lim # 0 /\ (now - r.val.time) > lim)
                  THEN fetch_all_from(st, Tail(keys), adjust, lim, now,
                                      DictSet(data, key, r.val))
                  ELSE fetch_all_from(st, Tail(keys), adjust, lim, now, data)

fetch_all(st, keys, adjust, lim, now) ==
    fetch_all_from(st, keys, adjust, lim, now, EmptyDict)

\* DataStore.empty: every queue cleared, the keys kept
empty(st) == [k \in DOMAIN st |-> <<>>]

\* DataStore.clear
clear(st) == EmptyDict

\* DataStore.copy, line 238: `for key, values in self.storage` iterates the
\* keys of the dict and unpacks each key, a string, into two names.  The
\* keys of Keys have one character, which does not unpack (ValueError; a
\* key of two characters would bind values to a one-character string,
\* which has no copy(): AttributeError).  Only an empty storage is copied.
copy(st, lim) ==
    IF DOMAIN st = {}
    THEN [err |-> "none", storage |-> EmptyDict, limit |-> lim]
    ELSE [err |-> "ValueError", storage |-> EmptyDict, limit |-> 0]

(***************************************************************************)
(* DataStore: state and actions.                                           *)
(***************************************************************************)
NoCall == [op |-> "none"]

\* DataStore.__init__ with the default storage; limit is None or 1..MaxLimit
StoreInit ==
    /\ storage = EmptyDict
    /\ limit \in 0..MaxLimit
    /\ inserted = [k \in Keys |-> <<>>]
    /\ nextId = 1
    /\ clock = 0
    /\ storeCall = NoCall

\* the store is constructed and never called
StoreIdle ==
    /\ storage = EmptyDict
    /\ limit = 0
    /\ inserted = [k \in Keys |-> <<>>]
    /\ nextId = 1
    /\ clock = 0
    /\ storeCall = NoCall

\* The Data objects a producer can create: as in publisher.py (Producer.next)
\* the time is a reading of time.time(), never earlier than the reading before.
NewData(id, from) == {Data(k, t, id) : k \in Keys, t \in from..MaxTime}

\* the history after the bucket of each key has been cut down to st[k]
Rebase(st) == [k \in Keys |-> IF k \in DOMAIN st THEN st[k] ELSE <<>>]

Insert ==
    /\ nextId <= MaxInserts
    /\ \E d \in NewData(nextId, clock) :
        /\ storage' = insert(storage, limit, d)
        /\ inserted' = [inserted EXCEPT ![d.name] = Append(@, d)]
        /\ clock' = d.time
        /\ storeCall' = [op |-> "insert"]
    /\ nextId' = nextId + 1
    /\ UNCHANGED limit

InsertAll ==
    /\ nextId + 1 <= MaxInserts
    /\ \E d1 \in NewData(nextId, clock) :
       \E d2 \in NewData(nextId + 1, d1.time) :
        /\ storage' = insert_all(storage, limit, <<d1, d2>>)
        /\ inserted' =
              [k \in Keys |->
                  inserted[k]
                  \o (IF d1.name = k THEN <<d1>> ELSE <<>>)
                  \o (IF d2.name = k THEN <<d2>> ELSE <<>>)]
        /\ clock' = d2.time
        /\ storeCall' = [op |-> "insert_all"]
    /\ nextId' = nextId + 2
    /\ UNCHANGED limit

Pop ==
    /\ \E key \in Keys :
        LET r == pop(storage, key)
        IN  /\ storage' = r.st
            /\ inserted' = IF r.err = "none" THEN Rebase(r.st) ELSE inserted
            /\ storeCall' = [op |-> "pop", key |-> key, err |-> r.err,
                             val |-> r.val, before |-> storage,
                             after |-> r.st]
    /\ UNCHANGED <<limit, nextId, clock>>

Empty ==
    /\ storage' = empty(storage)
    /\ inserted' = Rebase(empty(storage))
    /\ storeCall' = [op |-> "empty"]
    /\ UNCHANGED <<limit, nextId, clock>>

Clear ==
    /\ storage' = clear(storage)
    /\ inserted' = Rebase(clear(storage))
    /\ storeCall' = [op |-> "clear"]
    /\ UNCHANGED <<limit, nextId, clock>>

\* the key lists handed to fetch_all
KeyLists == {<<>>} \cup {<<k>> : k \in Keys} \cup {<<k1, k2>> : k1, k2 \in Keys}

\* fetch_all(keys, adjust, limit): limit is None (0) or an age of 1, and the
\* clock reads MaxTime + 1, later than every Data.time
FetchAll ==
    /\ \E keys \in KeyLists, adjust \in BOOLEAN, lim \in 0..1 :
        LET r == fetch_all(storage, keys, adjust, lim, MaxTime + 1)
        IN  storeCall' = [op |-> "fetch_all", keys |-> keys, adjust |-> adjust,
                          lim |-> lim, err |-> r.err,
                          val |-> r.val, before |-> storage]
    /\ UNCHANGED <<storage, limit, inserted, nextId, clock>>

\* DataStore.fetch(key)
Fetch ==
    /\ \E key \in Keys :
        LET r == fetch(storage, key)
        IN  storeCall' = [op |-> "fetch", key |-> key, err |-> r.err,
                          val |-> r.val, before |-> storage,
                          after |-> storage]
    /\ UNCHANGED <<storage, limit, inserted, nextId, clock>>

\* DataStore.is_valid_key(key) and DataStore.validate_key(key)
ValidateKey ==
    /\ \E key \in Keys :
        storeCall' = [op |-> "validate_key", key |-> key,
                      val |-> is_valid_key(storage, key),
                      err |-> validate_key(storage, key),
                      before |-> storage]
    /\ UNCHANGED <<storage, limit, inserted, nextId, clock>>

\* DataStore.copy()
Copy ==
    /\ LET r == copy(storage, limit)
       IN  storeCall' = [op |-> "copy", err |-> r.err, storage |-> r.storage,
                         limit |-> r.limit, before |-> storage]
    /\ UNCHANGED <<storage, limit, inserted, nextId, clock>>

(***************************************************************************)
(* sockets.py, client.py, server.py: one socket object.                    *)
(*                                                                         *)
(* sock.connection is 0 for None and otherwise the serial number of the    *)
(* raw socket it refers to; sock.raw is the state of that raw socket at    *)
(* the operating system: "fresh", "connected", "bound", "listening"; it is *)
(* "none" when connection is None.  sock.address is whether _address is    *)
(* set.  History fields: allocs (protocol.socket() calls made after        *)
(* construction), rawConnBind (connect / bind calls that reached a raw     *)
(* socket), closeCalled, reuse ("never", "always" or "mixed": the values   *)
(* reusable has had), calls.                                               *)
(***************************************************************************)
Kinds == {"Socket", "Client", "Server", "ServerSideClient"}

Ret(s, err, io) == [s |-> s, err |-> err, io |-> io]

\* protocol.socket(): a new raw socket
NewRawSocket(s) ==
    [s EXCEPT !.connection = s.allocs + 2, !.raw = "fresh",
              !.allocs = s.allocs + 1]

\* Socket.validate_open
validate_open(s) == IF s.closed THEN "ValueError" ELSE "none"

\* Socket.validate_connection (Client and Server inherit it)
validate_connection(s) ==
    IF s.connection = 0
    THEN IF s.reusable
         THEN LET s1 == [NewRawSocket(s) EXCEPT
                            !.closed = FALSE,
                            !.connections_count = s.connections_count + 1]
              IN  Ret(s1, validate_open(s1), FALSE)
         ELSE IF s.connections_count > 0
              THEN Ret(s, "ValueError", FALSE)
              ELSE Ret(s, validate_open(s), FALSE)
    ELSE Ret(s, validate_open(s), FALSE)

\* ServerSideClient.validate_connection
SSC_validate_connection(s) ==
    IF ~s.connected \/ s.connection = 0
    THEN Ret(s, "ValueError", FALSE)
    ELSE Ret(s, "none", FALSE)

\* TCP.send / UDP.send below the framing (BHP.send only prepends a header):
\* UDP.send raises ValueError without an address; connection.send /
\* connection.sendto on None raises AttributeError; a TCP raw socket that
\* is not connected refuses with OSError.
protocol_send(s, hasAddress) ==
    IF s.udp /\ ~hasAddress THEN Ret(s, "ValueError", FALSE)
    ELSE IF s.connection = 0 THEN Ret(s, "AttributeError", FALSE)
    ELSE IF s.udp \/ s.raw = "connected" THEN Ret(s, "none", TRUE)
    ELSE Ret(s, "OSError", FALSE)

\* TCP.receive / UDP.receive: connection.recv / connection.recvfrom
protocol_receive(s) ==
    IF s.connection = 0 THEN Ret(s, "AttributeError", FALSE)
    ELSE IF s.udp \/ s.raw = "connected" THEN Ret(s, "none", TRUE)
    ELSE Ret(s, "OSError", FALSE)

\* Socket.send(data, address=addrArg)
Socket_send(s, addrArg) == protocol_send(s, addrArg \/ s.address)

\* Socket.receive(address=addrArg): a datagram's source becomes _address
\* when neither the argument nor _address is set
Socket_receive(s, addrArg) ==
    LET r == protocol_receive(s)
    IN  IF r.err = "none" /\ s.udp /\ ~addrArg /\ ~s.address
        THEN Ret([s EXCEPT !.address = TRUE], "none", TRUE)
        ELSE r

\* Socket.close while self.on_close is None, lines 249-260
Socket_close_quiet(s) ==
    IF s.closed THEN s
    ELSE IF s.reusable
         THEN NewRawSocket(s)
         ELSE [s EXCEPT !.connection = 0, !.raw = "none", !.closed = TRUE]

\* Socket.close: a closed socket returns at once; otherwise the connection
\* is closed and on_close is called (lines 262-263)
Socket_close(s) ==
    IF s.closed THEN s
    ELSE [Socket_close_quiet(s) EXCEPT !.on_close = @ + 1]

\* Client.connect(address)
Client_connect(s) ==
    LET v == validate_connection(s)
    IN  IF v.err # "none" THEN v
        ELSE LET s1 == [v.s EXCEPT !.rawConnBind = @ + 1]
             IN  IF s1.udp \/ s1.raw = "fresh"
                 THEN Ret([s1 EXCEPT !.raw = "connected", !.address = TRUE,
                                     !.connected = TRUE], "none", FALSE)
                 ELSE Ret(s1, "OSError", FALSE)

\* Client.reconnect
Client_reconnect(s) == Client_connect(s)

\* Client.validate_connected
validate_connected(s) ==
    LET v == validate_connection(s)
    IN  IF v.err # "none" THEN v
        ELSE IF ~v.s.udp /\ ~v.s.connected
             THEN IF v.s.address
                  THEN Client_reconnect(v.s)
                  ELSE Ret(v.s, "ValueError", FALSE)
             ELSE v

\* Client.send
Client_send(s, addrArg) ==
    LET v == validate_connected(s)
    IN  IF v.err # "none" THEN v ELSE Socket_send(v.s, addrArg)

\* Client.receive
Client_receive(s, addrArg) ==
    LET v == validate_connected(s)
    IN  IF v.err # "none" THEN v ELSE Socket_receive(v.s, addrArg)

\* Client.close, lines 180-193: on_close is set aside while Socket.close
\* runs, put back, and called
Client_close(s) ==
    [Socket_close_quiet(s) EXCEPT !.connected = FALSE, !.on_close = @ + 1]

\* ServerSideClient.close
SSC_close(s) ==
    IF s.closed \/ ~s.connected \/ s.connection = 0 THEN s
    ELSE LET s1 == IF ~s.udp
                   THEN [s EXCEPT !.connection = 0, !.raw = "none"]
                   ELSE s
         IN  [s1 EXCEPT !.connected = FALSE, !.closed = TRUE,
                        !.on_close = @ + 1]

\* Server.bind(address)
Server_bind(s) ==
    LET v == validate_connection(s)
    IN  IF v.err # "none" THEN v
        ELSE LET s1 == [v.s EXCEPT !.rawConnBind = @ + 1]
             IN  IF s1.raw = "fresh"
                 THEN Ret([s1 EXCEPT !.raw = "bound", !.address = TRUE,
                                     !.bound = TRUE], "none", FALSE)
                 ELSE Ret(s1, "OSError", FALSE)

\* Server.rebind
Server_rebind(s) == Server_bind(s)

\* a validation that lets an unbound server through
validate_binding_skipped(s) == validate_connection(s)

\* Server.validate_binding
validate_binding(s) ==
    LET v == validate_connection(s)
    IN  IF v.err # "none" THEN v
        ELSE IF ~v.s.bound
             THEN IF v.s.address
                  THEN Server_rebind(v.s)
                  ELSE Ret(v.s, "ValueError", FALSE)
             ELSE v

\* Server.listen: a datagram socket refuses listen()
Server_listen(s) ==
    LET v == validate_binding(s)
    IN  IF v.err # "none" THEN v
        ELSE IF v.s.udp THEN Ret(v.s, "OSError", FALSE)
        ELSE Ret([v.s EXCEPT !.raw = "listening", !.listening = TRUE],
                 "none", FALSE)

\* Server.send
Server_send(s, addrArg) ==
    IF ~s.udp THEN Ret(s, "ValueError", FALSE)
    ELSE LET v == validate_binding(s)
         IN  IF v.err # "none" THEN v
             ELSE protocol_send(v.s, addrArg \/ v.s.address)

\* Server.receive
Server_receive(s, addrArg) ==
    IF ~s.udp THEN Ret(s, "ValueError", FALSE)
    ELSE LET v == validate_binding(s)
         IN  IF v.err # "none" THEN v
             ELSE protocol_receive(v.s)

\* Server.close (no client is registered on this server)
Server_close(s) ==
    [Socket_close_quiet(s) EXCEPT !.listening = FALSE, !.bound = FALSE,
                                  !.on_close = @ + 1]

\* make_reusable / make_unreusable of Client, Server and ServerSideClient
make_reusable(s) == [s EXCEPT !.reusable = TRUE]

make_unreusable(s) == [s EXCEPT !.reusable = FALSE]

(***************************************************************************)
(* The socket object: construction and method calls.                       *)
(***************************************************************************)
\* on_bind and on_listen tell whether the callback has run; Server.__init__
\* stores the two callbacks (lines 180-181) and no method calls them.
\* on_close counts the calls of the on_close callback the socket was given.
NewSock(kind, udp, reusable, hasAddress, raw) ==
    [kind |-> kind, udp |-> udp, reusable |-> reusable,
     connection |-> 1, raw |-> raw,
     closed |-> FALSE, connected |-> kind = "ServerSideClient",
     bound |-> FALSE, listening |-> FALSE,
     address |-> hasAddress, connections_count |-> 1,
     allocs |-> 0, rawConnBind |-> 0, closeCalled |-> FALSE,
     reuse |-> IF reusable THEN "always" ELSE "never", calls |-> 0,
     on_bind |-> FALSE, on_listen |-> FALSE, on_close |-> 0]

\* Socket.__init__ may wrap a connection that is already connected; Client
\* and Server start from a fresh raw socket, with or without a saved
\* address; Server._action_parameters builds a ServerSideClient around an
\* accepted connection and its address, or around the server's own bound
\* datagram socket with address None.
SockInit ==
    /\ sock \in
          {NewSock("Socket", u, r, a, w) :
              u \in BOOLEAN, r \in BOOLEAN, a \in BOOLEAN,
              w \in {"fresh", "connected"}}
          \cup {NewSock(k, u, r, a, "fresh") :
              k \in {"Client", "Server"},
              u \in BOOLEAN, r \in BOOLEAN, a \in BOOLEAN}
          \cup {NewSock("ServerSideClient", FALSE, FALSE, TRUE, "connected"),
                NewSock("ServerSideClient", TRUE, FALSE, FALSE, "bound")}
    /\ sockCall = NoCall

\* the object is constructed and never called
SockIdle ==
    /\ sock = NewSock("Socket", FALSE, FALSE, FALSE, "fresh")
    /\ sockCall = NoCall

\* bookkeeping common to every call: the result r of the method, its name
Called(op, r) ==
    /\ sock.calls < MaxCalls
    /\ sock' = [r.s EXCEPT
                  !.calls = sock.calls + 1,
                  !.closeCalled = sock.closeCalled \/ op = "close",
                  !.reuse = IF (r.s.reusable /\ sock.reuse = "always")
                               \/ (~r.s.reusable /\ sock.reuse = "never")
                            THEN sock.reuse ELSE "mixed"]
    /\ sockCall' = [op |-> op, err |-> r.err, io |-> r.io, before |-> sock]

Send ==
    \E addrArg \in BOOLEAN :
        Called("send",
               CASE sock.kind = "Client" -> Client_send(sock, addrArg)
                 [] sock.kind = "Server" -> Server_send(sock, addrArg)
                 [] OTHER -> Socket_send(sock, addrArg))

Receive ==
    \E addrArg \in BOOLEAN :
        Called("receive",
               CASE sock.kind = "Client" -> Client_receive(sock, addrArg)
                 [] sock.kind = "Server" -> Server_receive(sock, addrArg)
                 [] OTHER -> Socket_receive(sock, addrArg))

Close ==
    Called("close",
           Ret(CASE sock.kind = "Client" -> Client_close(sock)
                 [] sock.kind = "Server" -> Server_close(sock)
                 [] sock.kind = "ServerSideClient" -> SSC_close(sock)
                 [] OTHER -> Socket_close(sock),
               "none", FALSE))

Connect ==
    /\ sock.kind = "Client"
    /\ Called("connect", Client_connect(sock))

\* Client.preconnect / Server.prebind: only _address is set
Preset ==
    /\ sock.kind \in {"Client", "Server"}
    /\ Called("preset", Ret([sock EXCEPT !.address = TRUE], "none", FALSE))

Bind ==
    /\ sock.kind = "Server"
    /\ Called("bind", Server_bind(sock))

Listen ==
    /\ sock.kind = "Server"
    /\ Called("listen", Server_listen(sock))

MakeReusable ==
    /\ sock.kind # "Socket"
    /\ Called("make_reusable", Ret(make_reusable(sock), "none", FALSE))

MakeUnreusable ==
    /\ sock.kind # "Socket"
    /\ Called("make_unreusable", Ret(make_unreusable(sock), "none", FALSE))

(***************************************************************************)
(* protocols.py: BHP and BCP over TCP.  Bytes are one-character strings.   *)
(***************************************************************************)
DigitChars == <<"0", "1", "2", "3", "4", "5", "6", "7", "8", "9">>

PayloadChars == {"a", "0"}

\* str(n) for n >= 0
RECURSIVE str(_)
str(n) ==
    IF n < 10 THEN <<DigitChars[n + 1]>>
    ELSE str(n \div 10) \o <<DigitChars[(n % 10) + 1]>>

\* s.rjust(width, "0")
RECURSIVE rjust(_, _)
rjust(chars, width) ==
    IF Len(chars) >= width THEN chars ELSE rjust(<<"0">> \o chars, width)

IsDigit(c) == \E i \in 1..10 : DigitChars[i] = c

DigitValue(c) == (CHOOSE i \in 1..10 : DigitChars[i] = c) - 1

\* Python's ints are unbounded; every number from Huge on is kept as Huge,
\* which is more than the bytes a stream of the model ever holds.
Huge == 10000

\* int(s) for a non-empty string of the model's characters: -1 stands for
\* the ValueError raised on a character that is no digit
RECURSIVE int(_)
int(chars) ==
    IF \E i \in 1..Len(chars) : ~IsDigit(chars[i]) THEN -1
    ELSE IF Len(chars) = 1 THEN DigitValue(chars[1])
    ELSE LET high == int(SubSeq(chars, 1, Len(chars) - 1))
         IN  IF high >= Huge \div 10 THEN Huge
             ELSE 10 * high + DigitValue(chars[Len(chars)])

\* a test that knows the empty header only
NoChars(chars) == chars = <<>>

\* length_message.count("0") == len(length_message)
AllZero(chars) == \A i \in 1..Len(chars) : chars[i] = "0"

\* BHP.send: the bytes handed to TCP.send in one connection.send call
BHP_send(data) == rjust(str(Len(data)), HEADER) \o data

\* TCP.receive: connection.recv(buffer or self.buffer) asks for this many bytes
TCP_receive_size(buffer) == IF buffer = 0 THEN BUFFER ELSE buffer

\* The numbers of bytes one connection.recv(size) may return when avail > 0
\* bytes are in the stream: all that was asked for and is there, or, when
\* the transport delivers short reads, a smaller positive number.  With no
\* byte in the stream recv blocks, and returns b'' once the peer has closed.
Min(a, b) == IF a < b THEN a ELSE b

Max(a, b) == IF a > b THEN a ELSE b

Deliveries(size, avail, short) ==
    IF avail = 0 THEN {0}
    ELSE IF short
    THEN Max(1, Min(size, avail) - MaxShort)..Min(size, avail)
    ELSE {Min(size, avail)}

\* None where the code expects an int (a buffer or length argument)
NoInt == -1

\* the inner receives a BCP.receive plans once buffer and length are known
\* (lines 803-833); length None makes `buffer >= length` raise TypeError
BCP_plan(buffer, length, own) ==
    LET b == IF buffer = 0 THEN own ELSE buffer
    IN  IF length = NoInt THEN [err |-> "TypeError", reads |-> <<>>]
        ELSE IF b >= length THEN [err |-> "none", reads |-> <<length>>]
        ELSE [err |-> "none",
              reads |-> [i \in 1..(length \div b) |-> b]
                        \o (IF length % b # 0 THEN <<length % b>> ELSE <<>>)]

\* BHP.receive once buffer is known: one inner receive of buffer bytes
BHP_plan(buffer) == [err |-> "none", reads |-> <<buffer>>]

Plan(proto, buffer, length, own) ==
    IF proto = "BCP" THEN BCP_plan(buffer, length, own) ELSE BHP_plan(buffer)

(***************************************************************************)
(* One TCP stream: a sender calling BHP.send and a receiver calling        *)
(* protocol.receive, one inner connection.recv per step.                   *)
(***************************************************************************)
Idle == [pc |-> "idle"]

Payloads ==
    UNION {[1..n -> PayloadChars] : n \in 0..MaxPayload}

WireInit ==
    /\ link \in [proto : {"BHP", "BCP"}, buffer : 1..MaxChunk,
                  short : BOOLEAN, closed : {FALSE}]
    /\ wire = <<>>
    /\ expect = <<>>
    /\ sends = 0
    /\ receives = 0
    /\ asSocket = TRUE
    /\ rx = Idle
    /\ rxCall = NoCall

\* the connection is never used
WireIdle ==
    /\ link = [proto |-> "BHP", buffer |-> 1, short |-> FALSE,
               closed |-> FALSE]
    /\ wire = <<>>
    /\ expect = <<>>
    /\ sends = 0
    /\ receives = 0
    /\ asSocket = TRUE
    /\ rx = Idle
    /\ rxCall = NoCall

\* Socket.send over BHP / BCP (BCP inherits BHP.send)
WireSend ==
    /\ sends < MaxSends
    /\ ~link.closed
    /\ \E data \in Payloads :
        /\ wire' = wire \o BHP_send(data)
        /\ expect' = Append(expect, data)
    /\ sends' = sends + 1
    /\ UNCHANGED <<link, receives, asSocket, rx, rxCall>>

\* the sending peer closes its end of the connection
PeerClose ==
    /\ ~link.closed
    /\ link' = [link EXCEPT !.closed = TRUE]
    /\ UNCHANGED <<wire, expect, sends, receives, asSocket, rx, rxCall>>

\* the receive call returns data or raises err
Return(call, err, data, inner) ==
    /\ rx' = Idle
    /\ rxCall' = [op |-> "receive", proto |-> link.proto,
                  buffer |-> call.buffer, length |-> call.length,
                  err |-> err, data |-> data, inner |-> inner,
                  due |-> expect # <<>>,
                  want |-> IF expect = <<>> THEN <<>> ELSE Head(expect)]
    /\ expect' = IF expect = <<>> THEN expect ELSE Tail(expect)

\* the call goes on with the inner receives of its plan
Proceed(call, plan) ==
    IF plan.err # "none"
    THEN Return(call, plan.err, <<>>, 0)
    ELSE /\ rx' = [pc |-> "body", buffer |-> call.buffer,
                   length |-> call.length, reads |-> plan.reads,
                   data |-> <<>>, inner |-> 0]
         /\ UNCHANGED <<expect, rxCall>>

\* protocol.receive(connection, buffer=None [, length]) as Socket.receive
\* calls it (length None) or with a length: the read of the header
ReceiveHeader ==
    /\ rx.pc = "idle"
    /\ receives < MaxReceives
    /\ receives' = receives + 1
    /\ wire # <<>> \/ link.closed
    /\ \E length \in {NoInt} \cup 0..MaxPayload,
          k \in Deliveries(HEADER, Len(wire), link.short) :
        LET call == [buffer |-> NoInt, length |-> length]
            length_message == SubSeq(wire, 1, k)
        IN  /\ link.proto = "BHP" => length = NoInt
            /\ asSocket' = (asSocket /\ length = NoInt)
            /\ wire' = SubSeq(wire, k + 1, Len(wire))
            /\ IF AllZero(length_message)
               THEN Return(call, "none", <<>>, 0)
               ELSE IF int(length_message) < 0
               THEN Return(call, "ValueError", <<>>, 0)
               ELSE Proceed(call, Plan(link.proto, int(length_message),
                                       length, link.buffer))
    /\ UNCHANGED <<link, sends>>

\* protocol.receive(connection, buffer=b [, length]): no header is read
ReceiveBuffer ==
    /\ rx.pc = "idle"
    /\ receives < MaxReceives
    /\ receives' = receives + 1
    /\ \E buffer \in 0..MaxChunk, length \in {NoInt} \cup 0..MaxPayload :
        /\ link.proto = "BHP" => length = NoInt
        /\ asSocket' = FALSE
        /\ Proceed([buffer |-> buffer, length |-> length],
                   Plan(link.proto, buffer, length, link.buffer))
    /\ UNCHANGED <<link, wire, sends>>

\* one inner TCP.receive of the plan: connection.recv blocks on an empty stream
ReceiveInner ==
    /\ rx.pc = "body"
    /\ wire # <<>> \/ link.closed
    /\ \E k \in Deliveries(TCP_receive_size(Head(rx.reads)), Len(wire),
                            link.short) :
        LET data == rx.data \o SubSeq(wire, 1, k)
        IN  /\ wire' = SubSeq(wire, k + 1, Len(wire))
            /\ IF Len(rx.reads) = 1
               THEN Return(rx, "none", data, rx.inner + 1)
               ELSE /\ rx' = [rx EXCEPT !.reads = Tail(@), !.data = data,
                                        !.inner = @ + 1]
                    /\ UNCHANGED <<expect, rxCall>>
    /\ UNCHANGED <<link, sends, receives, asSocket>>

(***************************************************************************)
(* pubsub/streamer.py: one client of a SubscriptionStreamer whose sender   *)
(* is subscribed_stored_data_sender and whose receiver is                  *)
(* streamer_receive.  Sender, receiver and sendQueue drain are three Operator  *)
(* loops; each runs its operation again and again while it is "running".   *)
(***************************************************************************)
AUTHENTICATE == "authenticate"

PAUSE == "pause"

UNPAUSE == "unpause"

CLOSE == "close"

SUBSCRIBE == "subscribe"

UNSUBSCRIBE == "unsubscribe"

DATA == "data"

DEFAULT_SUBSCRIPTION_ENDPOINT_NAMES ==
    {AUTHENTICATE, PAUSE, UNPAUSE, CLOSE, SUBSCRIBE, UNSUBSCRIBE}

RESPONSE == "response"

\* A frame of the client that is a JSON object: loads tells whether Data.load
\* finds name, time and data in it; authorized is what the authenticator
\* answers to it; events is its data field.
Request(name, loads, authorized, evs) ==
    [json |-> "object", name |-> name, loads |-> loads,
     authorized |-> authorized, events |-> evs]

\* A frame that Data.decode refuses (bytes that are not UTF-8, text that is
\* not JSON): json.loads raises a ValueError and payload stays {}.
Undecodable ==
    [json |-> "none", name |-> RESPONSE, loads |-> FALSE,
     authorized |-> FALSE, events |-> {}]

\* A frame that is JSON but not an object (a list, a string, a number, null):
\* Data.load raises TypeError on payload["name"].
NotObject ==
    [json |-> "other", name |-> RESPONSE, loads |-> FALSE,
     authorized |-> FALSE, events |-> {}]

Requests ==
    {Request(AUTHENTICATE, TRUE, a, {}) : a \in BOOLEAN}
    \cup {Request(n, TRUE, FALSE, {k}) :
             n \in {SUBSCRIBE, UNSUBSCRIBE}, k \in Keys}
    \cup {Request(n, TRUE, FALSE, {}) : n \in {PAUSE, UNPAUSE, CLOSE, "other"}}
    \cup {Request(SUBSCRIBE, FALSE, FALSE, {})}
    \cup {Undecodable, NotObject}

\* the messages put on the send sendQueue
Response(name, response) ==
    [kind |-> "response", name |-> name, response |-> response,
     data |-> EmptyDict]

DataMessage(data) ==
    [kind |-> "data", name |-> DATA, response |-> "", data |-> data]

\* a check that lets every request through
unauthenticated_never(authenticate, name, authenticated) == FALSE

\* streamer_receive, lines 526-530
unauthenticated_request(authenticate, name, authenticated) ==
    authenticate /\ name # AUTHENTICATE /\ ~authenticated

\* Operator.pause / unpause / stop
pause(state) == IF state = "running" THEN "paused" ELSE state

unpause(state) == IF state = "paused" THEN "running" ELSE state

stop(state) == "stopped"

\* StreamController.close: stop the three operators, close the socket
StreamController_close(c) ==
    [c EXCEPT !.receiver = stop(@), !.sender = stop(@),
              !.queue_socket = stop(@), !.closed = TRUE]

\* iteration over a set of keys
RECURSIVE SetToSeq(_)
SetToSeq(S) ==
    IF S = {} THEN <<>>
    ELSE LET x == CHOOSE y \in S : TRUE
         IN  <<x>> \o SetToSeq(S \ {x})

\* a delta that only holds the keys not sent before
DeltaOfNewKeys(storage_data, previous) ==
    LET keys == {key \in DOMAIN storage_data : key \notin DOMAIN previous}
    IN  [key \in keys |-> storage_data[key]]

\* subscribed_stored_data_sender, lines 829-832
Delta(storage_data, previous) ==
    LET keys == {key \in DOMAIN storage_data :
                    \/ key \notin DOMAIN previous
                    \/ storage_data[key].time # previous[key].time}
    IN  [key \in keys |-> storage_data[key]]

\* a test that lets the empty delta through
any_data(data) == TRUE

\* subscribed_stored_data_sender, line 836: `if data:`
if_data(data) == DOMAIN data # {}

NoTick == [pc |-> "idle"]

StreamInit ==
    /\ streamer \in [authenticate : BOOLEAN, on_invalid : BOOLEAN,
                     on_unauthenticated : BOOLEAN, on_leave : BOOLEAN,
                     clients : {TRUE}, subscribers : {TRUE}]
    /\ controller = [authenticated |-> ~streamer.authenticate,
                     sender |-> "running", receiver |-> "running",
                     queue_socket |-> "running", closed |-> FALSE]
    /\ subscriber = [events |-> {}, data |-> EmptyDict]
    /\ sendQueue = <<>>
    /\ out = <<>>
    /\ senderTick = NoTick
    /\ receiverTick = NoTick
    /\ requests = 0
    /\ rcv = NoCall
    /\ snd = NoCall

\* no client ever connects
StreamIdle ==
    /\ streamer = [authenticate |-> FALSE, on_invalid |-> FALSE,
                   on_unauthenticated |-> FALSE, on_leave |-> FALSE,
                   clients |-> FALSE, subscribers |-> FALSE]
    /\ controller = [authenticated |-> TRUE,
                     sender |-> "stopped", receiver |-> "stopped",
                     queue_socket |-> "stopped", closed |-> FALSE]
    /\ subscriber = [events |-> {}, data |-> EmptyDict]
    /\ sendQueue = <<>>
    /\ out = <<>>
    /\ senderTick = NoTick
    /\ receiverTick = NoTick
    /\ requests = 0
    /\ rcv = NoCall
    /\ snd = NoCall

\* An exception leaves the operation of the named operator and reaches the
\* shared Handler: its exception_callback stops the sendQueue operator and pops
\* the controller from streamer.clients.  Whether the loop that raised goes
\* on is the Handler's business (looperator): both outcomes are kept.
Escaped(c, operator) ==
    {[c EXCEPT !.queue_socket = stop(@)],
     [c EXCEPT !.queue_socket = stop(@), ![operator] = stop(@)]}

\* the receiver tick ends: what it enqueued, called, fired and raised
Received(req, responses, endpoint, fired, raised, c, sub, st) ==
    /\ sendQueue' = sendQueue \o responses
    /\ IF raised = "none"
       THEN controller' = c /\ streamer' = st
       ELSE /\ controller' \in Escaped(c, "receiver")
            /\ streamer' = [st EXCEPT !.clients = FALSE]
    /\ subscriber' = sub
    /\ receiverTick' = NoTick
    /\ rcv' = [op |-> "receive", request |-> req, enqueued |-> responses,
               endpoint |-> endpoint, fired |-> fired, raised |-> raised,
               before |-> IF receiverTick.pc = "idle" THEN controller
                          ELSE receiverTick.before,
               after |-> controller']

\* ServerSubscriber.subscribe
subscribe(subscribed, events) == subscribed \cup events

\* an unsubscribe that forgets nothing
unsubscribe_none(subscribed, events) == subscribed

\* ServerSubscriber.unsubscribe
unsubscribe(subscribed, events) == subscribed \ events

\* endpoints[data.name](controller, data) for every endpoint but authenticate
Endpoint(req) ==
    CASE req.name = SUBSCRIBE ->
            Received(req, <<>>, SUBSCRIBE, {}, "none", controller,
                     [subscriber EXCEPT !.events = subscribe(@, req.events)],
                     streamer)
      [] req.name = UNSUBSCRIBE ->
            Received(req, <<>>, UNSUBSCRIBE, {}, "none", controller,
                     [subscriber EXCEPT
                         !.events = unsubscribe(@, req.events)],
                     streamer)
      [] req.name = PAUSE ->
            Received(req, <<>>, PAUSE, {}, "none",
                     [controller EXCEPT !.sender = pause(@)],
                     subscriber, streamer)
      [] req.name = UNPAUSE ->
            Received(req, <<>>, UNPAUSE, {}, "none",
                     [controller EXCEPT !.sender = unpause(@)],
                     subscriber, streamer)
      [] req.name = CLOSE ->
            \* close_endpoint: controller.close(), streamer.subscribers.pop,
            \* streamer.on_leave when set
            Received(req, <<>>, CLOSE,
                     IF streamer.on_leave THEN {"on_leave"} ELSE {}, "none",
                     StreamController_close(controller), subscriber,
                     [streamer EXCEPT !.subscribers = FALSE])

\* client_authentication up to line 596: the authenticator is asked and
\* controller.authenticated is written
Authenticate(req) ==
    LET authorized == IF streamer.authenticate THEN req.authorized ELSE TRUE
    IN  /\ controller' = [controller EXCEPT !.authenticated = authorized]
        /\ receiverTick' = [pc |-> "respond", request |-> req,
                            authorized |-> authorized, before |-> controller]
        /\ UNCHANGED <<streamer, subscriber, sendQueue, rcv>>

\* streamer_receive on one frame of the client
ReceiverTick ==
    /\ controller.receiver = "running"
    /\ ~controller.closed
    /\ receiverTick.pc = "idle"
    /\ requests < MaxRequests
    /\ requests' = requests + 1
    /\ \E req \in Requests :
        IF req.json = "other"
        THEN \* Data.load raises TypeError; in the except block, payload.get
             \* raises AttributeError before anything is enqueued
             Received(req, <<>>, "none", {}, "AttributeError",
                      controller, subscriber, streamer)
        ELSE IF ~req.loads
        THEN \* Data.decode raises ValueError or Data.load raises KeyError;
             \* with on_invalid set, line 553 calls Data.load again outside
             \* the try block
             Received(req, <<Response(req.name, "invalid request")>>, "none",
                      {}, IF streamer.on_invalid THEN "KeyError" ELSE "none",
                      controller, subscriber, streamer)
        ELSE IF unauthenticated_request(streamer.authenticate, req.name,
                                        controller.authenticated)
        THEN Received(req, <<Response(req.name, "unauthenticated")>>, "none",
                      IF streamer.on_unauthenticated
                      THEN {"on_unauthenticated"} ELSE {},
                      "none", controller, subscriber, streamer)
        ELSE IF req.name \notin DEFAULT_SUBSCRIPTION_ENDPOINT_NAMES
        THEN Received(req, <<Response(req.name, "invalid request")>>, "none",
                      IF streamer.on_invalid THEN {"on_invalid"} ELSE {},
                      "none", controller, subscriber, streamer)
        ELSE IF req.name = AUTHENTICATE
        THEN Authenticate(req)
        ELSE Endpoint(req)
    /\ UNCHANGED <<out, senderTick, snd>>

\* client_authentication from line 598: the response is enqueued
Respond ==
    /\ receiverTick.pc = "respond"
    /\ Received(receiverTick.request,
                <<Response(AUTHENTICATE,
                           IF receiverTick.authorized THEN "authorized"
                           ELSE "unauthorized")>>,
                AUTHENTICATE, {}, "none", controller, subscriber, streamer)
    /\ UNCHANGED <<out, senderTick, requests, snd>>

\* the sender lambda of Streamer.controller: the gate
SenderGate ==
    /\ controller.sender = "running"
    /\ senderTick.pc = "idle"
    /\ senderTick' = IF (~streamer.authenticate) \/ controller.authenticated
                     THEN [pc |-> "call"] ELSE NoTick
    /\ UNCHANGED <<streamer, controller, subscriber, sendQueue, out,
                   receiverTick, requests, rcv, snd>>

\* self.sender(controller): self.subscribers[controller], then line 824
SenderCall ==
    /\ senderTick.pc = "call"
    /\ IF ~streamer.subscribers
       THEN /\ controller' \in Escaped(controller, "sender")
            /\ streamer' = [streamer EXCEPT !.clients = FALSE]
            /\ senderTick' = NoTick
       ELSE /\ senderTick' = IF ~controller.authenticated THEN NoTick
                             ELSE [pc |-> "fetch"]
            /\ UNCHANGED <<streamer, controller>>
    /\ UNCHANGED <<subscriber, sendQueue, out, receiverTick, requests, rcv, snd>>

\* lines 827-834: fetch_all, the delta, subscriber.data
SenderFetch ==
    /\ senderTick.pc = "fetch"
    /\ LET storage_data ==
               fetch_all(storage, SetToSeq(subscriber.events), TRUE, 0, 0).val
           data == Delta(storage_data, subscriber.data)
       IN  /\ subscriber' = [subscriber EXCEPT !.data = storage_data]
           /\ senderTick' = IF if_data(data)
                            THEN [pc |-> "send", data |-> data] ELSE NoTick
    /\ UNCHANGED <<streamer, controller, sendQueue, out, receiverTick, requests,
                   rcv, snd>>

\* lines 836-839: controller.queue_socket.send
SenderSend ==
    /\ senderTick.pc = "send"
    /\ sendQueue' = Append(sendQueue, DataMessage(senderTick.data))
    /\ snd' = [op |-> "enqueue", authenticated |-> controller.authenticated]
    /\ senderTick' = NoTick
    /\ UNCHANGED <<streamer, controller, subscriber, out, receiverTick,
                   requests, rcv>>

\* SocketSenderQueue.send_queue, one tick of the sendQueue operator
Drain ==
    /\ controller.queue_socket = "running"
    /\ ~controller.closed
    /\ sendQueue # <<>>
    /\ out' = Append(out, Head(sendQueue))
    /\ sendQueue' = Tail(sendQueue)
    /\ UNCHANGED <<streamer, controller, subscriber, senderTick,
                   receiverTick, requests, rcv, snd>>

(***************************************************************************)
(* server.py: Server.handle, its worker and a concurrent Server.close.     *)
(*                                                                         *)
(* server.connection is 0 for None, 1 for the raw socket the server        *)
(* listens on and 2 for the raw socket a reusable server allocates in      *)
(* close; server.open tells whether raw socket 1 is still open.  A round   *)
(* is one call of handle; clients[i] is the ServerSideClient of round i:   *)
(* whether it is constructed, whether it is under its address in           *)
(* server.clients, whether it is closed, and how far action(server,        *)
(* client) has got.  worker is the thread that runs _action_parameters     *)
(* (the caller of handle when sequential, the new thread otherwise).       *)
(***************************************************************************)
Rounds == 1..MaxHandles

NoClient ==
    [made |-> FALSE, sentinel |-> FALSE, registered |-> FALSE,
     closed |-> FALSE, action |-> "none"]

NoWorker == [pc |-> "idle", round |-> 0, interrupted |-> FALSE, err |-> "none"]

\* Server.__init__, bind and listen have run; sequential is the server's
\* attribute handle reads
AcceptInit ==
    /\ server \in [reusable : BOOLEAN, sequential : BOOLEAN, closed : {FALSE},
                   connection : {1}, open : {TRUE}, listening : {TRUE},
                   bound : {TRUE}]
    /\ clients = [i \in Rounds |-> NoClient]
    /\ worker = NoWorker
    /\ closing = "idle"
    /\ handles = 0

\* no server is constructed
AcceptIdle ==
    /\ server = [reusable |-> FALSE, sequential |-> FALSE, closed |-> FALSE,
                 connection |-> 0, open |-> FALSE, listening |-> FALSE,
                 bound |-> FALSE]
    /\ clients = [i \in Rounds |-> NoClient]
    /\ worker = NoWorker
    /\ closing = "idle"
    /\ handles = 0

\* handle up to the call of self.connection.accept() in _accept: the server
\* listens, so validate_listening does nothing, and the worker blocks
Handle ==
    /\ worker.pc = "idle"
    /\ closing = "idle"
    /\ server.listening
    /\ handles < MaxHandles
    /\ handles' = handles + 1
    /\ worker' = [pc |-> "accept", round |-> handles + 1,
                  interrupted |-> FALSE, err |-> "none"]
    /\ UNCHANGED <<server, clients, closing>>

\* a peer connects: accept returns its connection and address
AcceptReturns ==
    /\ worker.pc = "accept"
    /\ server.open
    /\ worker' = [worker EXCEPT !.pc = "accepted"]
    /\ UNCHANGED <<server, clients, closing, handles>>

\* the raw socket was closed under the blocked accept, which raises OSError;
\* _accept, lines 328-333: a closed server returns a new raw socket and the
\* address ("", 0), any other re-raises
AcceptInterrupted ==
    /\ worker.pc = "accept"
    /\ ~server.open
    /\ worker' = IF server.closed
                 THEN [worker EXCEPT !.pc = "accepted", !.interrupted = TRUE]
                 ELSE [worker EXCEPT !.pc = "raised", !.interrupted = TRUE,
                                     !.err = "OSError"]
    /\ UNCHANGED <<server, clients, closing, handles>>

\* _action_parameters, lines 353-361: the ServerSideClient is constructed
Construct ==
    /\ worker.pc = "accepted"
    /\ clients' = [clients EXCEPT ![worker.round].made = TRUE,
                                  ![worker.round].sentinel = worker.interrupted]
    /\ worker' = [worker EXCEPT !.pc = "check"]
    /\ UNCHANGED <<server, closing, handles>>

\* handle, line 508 (`if self.closed: return`) and line 523
\* (`... if not self.closed else None`)
CheckClosed ==
    /\ worker.pc = "check"
    /\ worker' = IF server.closed THEN [worker EXCEPT !.pc = "idle"]
                 ELSE IF server.sequential
                 THEN [worker EXCEPT !.pc = "register"]
                 ELSE [worker EXCEPT !.pc = "action"]
    /\ UNCHANGED <<server, clients, closing, handles>>

\* self.clients[client.address] = client: line 512 when sequential, the
\* second element of the tuple of lines 520-523 otherwise, which ends the round
Register ==
    /\ worker.pc = "register"
    /\ clients' = [clients EXCEPT ![worker.round].registered = TRUE]
    /\ worker' = [worker EXCEPT !.pc = IF server.sequential THEN "start"
                                       ELSE "idle"]
    /\ UNCHANGED <<server, closing, handles>>

\* sequential, line 514: a thread is started on action(self, client) and
\* handle returns
StartAction ==
    /\ worker.pc = "start"
    /\ clients' = [clients EXCEPT ![worker.round].action = "running"]
    /\ worker' = [worker EXCEPT !.pc = "idle"]
    /\ UNCHANGED <<server, closing, handles>>

\* not sequential, line 521: the worker itself calls action(self, c)
CallAction ==
    /\ worker.pc = "action"
    /\ clients[worker.round].action = "none"
    /\ clients' = [clients EXCEPT ![worker.round].action = "running"]
    /\ UNCHANGED <<server, worker, closing, handles>>

\* action(server, client) returns; when not sequential the worker goes on to
\* register the client
ActionReturns ==
    /\ \E i \in Rounds :
        /\ clients[i].action = "running"
        /\ clients' = [clients EXCEPT ![i].action = "done"]
        /\ worker' = IF worker.pc = "action" /\ worker.round = i
                     THEN [worker EXCEPT !.pc = "register"] ELSE worker
    /\ UNCHANGED <<server, closing, handles>>

\* Server.close, line 448: close_clients closes every client in self.clients
CloseClients ==
    /\ closing = "idle"
    /\ server.connection # 0
    /\ clients' = [i \in Rounds |->
                      IF clients[i].registered
                      THEN [clients[i] EXCEPT !.closed = TRUE] ELSE clients[i]]
    /\ closing' = "raw"
    /\ UNCHANGED <<server, worker, handles>>

\* Socket.close, line 252: self.connection.close()
CloseRaw ==
    /\ closing = "raw"
    /\ server' = [server EXCEPT !.open = FALSE]
    /\ closing' = "connection"
    /\ UNCHANGED <<clients, worker, handles>>

\* Socket.close, lines 254-258: a reusable server gets a new raw socket and
\* stays open for use; any other loses its connection
CloseConnection ==
    /\ closing = "connection"
    /\ server' = [server EXCEPT !.connection = IF server.reusable THEN 2 ELSE 0]
    /\ closing' = IF server.reusable THEN "flags" ELSE "closed"
    /\ UNCHANGED <<clients, worker, handles>>

\* Socket.close, line 260: self._closed = True
CloseFlag ==
    /\ closing = "closed"
    /\ server' = [server EXCEPT !.closed = TRUE]
    /\ closing' = "flags"
    /\ UNCHANGED <<clients, worker, handles>>

\* Server.close, lines 455-456: _listening and _bound are reset; close returns
CloseReturns ==
    /\ closing = "flags"
    /\ server' = [server EXCEPT !.listening = FALSE, !.bound = FALSE]
    /\ closing' = "done"
    /\ UNCHANGED <<clients, worker, handles>>

(***************************************************************************)
(* queue.py: one SocketSenderQueue, the producers that call send, the tick *)
(* of its Operator loop (send_queue), a call of send_all_queue, stop and   *)
(* close.  A frame is the pair (data, address) given to send: id is its    *)
(* serial number, producer the thread that appended it and empty whether   *)
(* data is b"".  list.append and list.pop are single steps of the          *)
(* interpreter; the test `if self.queue`, the pop and socket.send are not  *)
(* one step together.                                                      *)
(***************************************************************************)
Producers == {1, 2}

Frame(id, producer, isEmpty) ==
    [id |-> id, producer |-> producer, empty |-> isEmpty]

\* a drain that takes the newest frame: pop() for pop(0)
popNewest(q) == [data |-> Last(q), rest |-> Front(q)]

\* send_queue, line 118: data = self.queue.pop(0)
pop0(q) == [data |-> Head(q), rest |-> Tail(q)]

\* a test that takes a list of one element for an empty one
moreThanOne(q) == Len(q) > 1

\* `if self.queue` / `while self.queue`: a list is true when it is not empty
truthy(q) == q # <<>>

\* the frames socket.send is called with: send_queue, line 120, `if data[0]`
NonEmpty(q) == SelectSeq(q, LAMBDA f : ~f.empty)

NoTask == [pc |-> "idle"]

NoFlush ==
    [pc |-> "idle", pending |-> <<>>, sent |-> <<>>, enqueued |-> FALSE,
     drained |-> FALSE, err |-> "none", data |-> Frame(0, 0, TRUE)]

\* SocketSenderQueue.__init__ around an open socket; the Operator loop is
\* started with run() or never is (queue_client.py)
QueueInit ==
    /\ senderQueue \in [queue : {<<>>}, operator : {"running", "stopped"},
                        socket : {"open"}, closed : {FALSE}]
    /\ drainTick = NoTask
    /\ flushCall = NoFlush
    /\ passed = <<>>
    /\ appended = <<>>
    /\ poppedClosed = FALSE

\* no queue is constructed
QueueIdle ==
    /\ senderQueue = [queue |-> <<>>, operator |-> "stopped",
                      socket |-> "closed", closed |-> FALSE]
    /\ drainTick = NoTask
    /\ flushCall = NoFlush
    /\ passed = <<>>
    /\ appended = <<>>
    /\ poppedClosed = FALSE

FlushRuns == flushCall.pc \notin {"idle", "done", "raised"}

\* SocketSenderQueue.send by one of the producers
Enqueue ==
    /\ Len(appended) < MaxFrames
    /\ \E p \in Producers, e \in BOOLEAN :
        LET f == Frame(Len(appended) + 1, p, e)
        IN  /\ senderQueue' = [senderQueue EXCEPT !.queue = Append(@, f)]
            /\ appended' = Append(appended, f)
    /\ flushCall' = IF FlushRuns THEN [flushCall EXCEPT !.enqueued = TRUE]
                    ELSE flushCall
    /\ UNCHANGED <<drainTick, passed, poppedClosed>>

\* socket.send(*data): Socket.send does not validate; on a closed socket
\* the connection is None and the protocol raises AttributeError
socket_send(s) == IF s.socket = "open" THEN "none" ELSE "AttributeError"

\* a tick of the operator, send_queue line 116: `if self.queue`
DrainTest ==
    /\ senderQueue.operator = "running"
    /\ drainTick.pc = "idle"
    /\ truthy(senderQueue.queue)
    /\ drainTick' = [pc |-> "pop"]
    /\ UNCHANGED <<senderQueue, flushCall, passed, appended, poppedClosed>>

\* line 118: pop(0); IndexError (the list was emptied meanwhile) is caught;
\* line 120: an empty data is dropped
DrainPop ==
    /\ drainTick.pc = "pop"
    /\ IF senderQueue.queue = <<>>
       THEN /\ drainTick' = NoTask
            /\ UNCHANGED <<senderQueue, flushCall, poppedClosed>>
       ELSE LET r == pop0(senderQueue.queue)
            IN  /\ senderQueue' = [senderQueue EXCEPT !.queue = r.rest]
                /\ drainTick' = IF r.data.empty THEN NoTask
                                ELSE [pc |-> "send", data |-> r.data]
                /\ flushCall' = IF FlushRuns
                                THEN [flushCall EXCEPT !.drained = TRUE]
                                ELSE flushCall
                /\ poppedClosed' = (poppedClosed \/ senderQueue.closed)
    /\ UNCHANGED <<passed, appended>>

\* line 121: self.socket.send(*data); an exception leaves the operation and
\* the loop goes on or ends, as the Handler decides
DrainSend ==
    /\ drainTick.pc = "send"
    /\ passed' = Append(passed, drainTick.data)
    /\ drainTick' = NoTask
    /\ IF socket_send(senderQueue) = "none"
       THEN UNCHANGED senderQueue
       ELSE \E o \in {senderQueue.operator, "stopped"} :
                senderQueue' = [senderQueue EXCEPT !.operator = o]
    /\ UNCHANGED <<flushCall, appended, poppedClosed>>

\* send_all_queue is called: pending is the queue at the call
Flush ==
    /\ flushCall.pc = "idle"
    /\ flushCall' = [NoFlush EXCEPT !.pc = "while",
                                    !.pending = senderQueue.queue,
                                    !.drained = (drainTick.pc # "idle")]
    /\ UNCHANGED <<senderQueue, drainTick, passed, appended, poppedClosed>>

\* line 133: `while self.queue`
FlushWhile ==
    /\ flushCall.pc = "while"
    /\ flushCall' = [flushCall EXCEPT
                        !.pc = IF truthy(senderQueue.queue) THEN "test"
                               ELSE "done"]
    /\ UNCHANGED <<senderQueue, drainTick, passed, appended, poppedClosed>>

\* line 134, send_queue line 116: `if self.queue`
FlushTest ==
    /\ flushCall.pc = "test"
    /\ flushCall' = [flushCall EXCEPT
                        !.pc = IF truthy(senderQueue.queue) THEN "pop"
                               ELSE "while"]
    /\ UNCHANGED <<senderQueue, drainTick, passed, appended, poppedClosed>>

\* send_queue lines 118-120 in the caller of send_all_queue
FlushPop ==
    /\ flushCall.pc = "pop"
    /\ IF senderQueue.queue = <<>>
       THEN /\ flushCall' = [flushCall EXCEPT !.pc = "while"]
            /\ UNCHANGED <<senderQueue, drainTick>>
       ELSE LET r == pop0(senderQueue.queue)
            IN  /\ senderQueue' = [senderQueue EXCEPT !.queue = r.rest]
                /\ flushCall' = IF r.data.empty
                                THEN [flushCall EXCEPT !.pc = "while"]
                                ELSE [flushCall EXCEPT !.pc = "send",
                                                       !.data = r.data]
                /\ UNCHANGED drainTick
    /\ UNCHANGED <<passed, appended, poppedClosed>>

\* send_queue line 121 in the caller of send_all_queue: an exception of
\* socket.send leaves send_all_queue
FlushSend ==
    /\ flushCall.pc = "send"
    /\ passed' = Append(passed, flushCall.data)
    /\ flushCall' =
          IF socket_send(senderQueue) = "none"
          THEN [flushCall EXCEPT !.pc = "while",
                                 !.sent = Append(@, flushCall.data)]
          ELSE [flushCall EXCEPT !.pc = "raised",
                                 !.sent = Append(@, flushCall.data),
                                 !.err = socket_send(senderQueue)]
    /\ UNCHANGED <<senderQueue, drainTick, appended, poppedClosed>>

\* Operator.stop on the queue: the loop makes no further tick
QueueStop ==
    /\ senderQueue.operator = "running"
    /\ senderQueue' = [senderQueue EXCEPT !.operator = stop(@)]
    /\ UNCHANGED <<drainTick, flushCall, passed, appended, poppedClosed>>

\* SocketSenderQueue.close, line 168: self.socket.close()
QueueClose ==
    /\ ~senderQueue.closed
    /\ senderQueue' = [senderQueue EXCEPT !.socket = "closed",
                                          !.closed = TRUE]
    /\ UNCHANGED <<drainTick, flushCall, passed, appended, poppedClosed>>

\* no controller is wired
TermIdle == wiring = [pc |-> "none"]

DelayIdle == timing = [pc |-> "none"]

RaceIdle == shared = [pc |-> "none"]

RegistryIdle == registry = [pc |-> "none"]

ServiceIdle == service = [pc |-> "none"]

ReadingIdle == reading = [pc |-> "none"]

SessionIdle == session = [pc |-> "none"]

RestIdle ==
    /\ DelayIdle /\ RaceIdle /\ RegistryIdle /\ ServiceIdle /\ ReadingIdle
    /\ SessionIdle

\* no subscribe request is followed
MemberIdle == fresh = {} /\ pending = {} /\ left = {}

(***************************************************************************)
(* SpecSocket: every sequence of method calls on one socket object.        *)
(***************************************************************************)
InitSocket == StoreIdle /\ SockInit /\ WireIdle /\ StreamIdle /\ AcceptIdle
    /\ QueueIdle /\ MemberIdle /\ TermIdle /\ RestIdle

NextSocket ==
    /\ \/ Send \/ Receive \/ Close \/ Connect \/ Preset \/ Bind \/ Listen
       \/ MakeReusable \/ MakeUnreusable
    /\ UNCHANGED <<storeVars, wireVars, streamVars, acceptVars, queueVars,
                 memberVars, termVars, restVars>>

SpecSocket == InitSocket /\ [][NextSocket]_vars

(***************************************************************************)
(* SpecWire: one TCP stream.                                               *)
(***************************************************************************)
InitWire == StoreIdle /\ SockIdle /\ WireInit /\ StreamIdle /\ AcceptIdle
    /\ QueueIdle /\ MemberIdle /\ TermIdle /\ RestIdle

NextWire ==
    /\ WireSend \/ ReceiveHeader \/ ReceiveBuffer \/ ReceiveInner \/ PeerClose
    /\ UNCHANGED <<storeVars, sockVars, streamVars, acceptVars, queueVars,
                 memberVars, termVars, restVars>>

SpecWire == InitWire /\ [][NextWire]_vars

(***************************************************************************)
(* SpecInsert: a store that is only ever inserted into.                    *)
(***************************************************************************)
InitInsert == StoreInit /\ SockIdle /\ WireIdle /\ StreamIdle /\ AcceptIdle
    /\ QueueIdle /\ MemberIdle /\ TermIdle /\ RestIdle

NextInsert ==
    /\ Insert \/ InsertAll
    /\ UNCHANGED <<sockVars, wireVars, streamVars, acceptVars, queueVars,
                 memberVars, termVars, restVars>>

SpecInsert == InitInsert /\ [][NextInsert]_vars

(***************************************************************************)
(* SpecStore: every mutation of the store, and fetch_all.                  *)
(***************************************************************************)
InitStore == StoreInit /\ SockIdle /\ WireIdle /\ StreamIdle /\ AcceptIdle
    /\ QueueIdle /\ MemberIdle /\ TermIdle /\ RestIdle

NextStore ==
    /\ \/ Insert \/ InsertAll \/ Pop \/ Empty \/ Clear \/ FetchAll
       \/ Fetch \/ ValidateKey \/ Copy
    /\ UNCHANGED <<sockVars, wireVars, streamVars, acceptVars, queueVars,
                 memberVars, termVars, restVars>>

SpecStore == InitStore /\ [][NextStore]_vars

(***************************************************************************)
(* SpecStream: one client of a streamer, its three loops and the producer. *)
(* SpecStreamFair: the same, with every loop that can step stepping.       *)
(***************************************************************************)
InitStream == StoreIdle /\ SockIdle /\ WireIdle /\ StreamInit /\ AcceptIdle
    /\ QueueIdle /\ MemberIdle /\ TermIdle /\ RestIdle

\* the streamer of the fair specification requires authentication and has
\* no callbacks
InitStreamFair ==
    /\ InitStream
    /\ streamer.authenticate
    /\ ~streamer.on_invalid
    /\ ~streamer.on_unauthenticated
    /\ ~streamer.on_leave

Produce == nextId <= MaxProduce /\ Insert /\ UNCHANGED streamVars

\* a step of one of the controller's threads
Thread(step) ==
    step /\ UNCHANGED <<storeVars, sockVars, wireVars, acceptVars, queueVars,
                 memberVars, termVars, restVars>>

NextStream ==
    \/ Produce /\ UNCHANGED <<sockVars, wireVars, acceptVars, queueVars,
                 memberVars, termVars, restVars>>
    \/ Thread(ReceiverTick)
    \/ Thread(Respond)
    \/ Thread(SenderGate)
    \/ Thread(SenderCall)
    \/ Thread(SenderFetch)
    \/ Thread(SenderSend)
    \/ Thread(Drain)

SpecStream == InitStream /\ [][NextStream]_vars

SpecStreamFair ==
    /\ InitStreamFair /\ [][NextStream]_vars
    /\ WF_vars(Thread(Respond))
    /\ WF_vars(Thread(SenderGate))
    /\ WF_vars(Thread(SenderCall))
    /\ WF_vars(Thread(SenderFetch))
    /\ WF_vars(Thread(SenderSend))
    /\ WF_vars(Thread(Drain))

(***************************************************************************)
(* C6: with limit = N >= 1, after any sequence of insert / insert_all      *)
(* calls every bucket holds at most N entries, and they are exactly the N  *)
(* most recently inserted entries of its key, oldest first.                *)
(***************************************************************************)
LastN(q, n) == IF Len(q) <= n THEN q ELSE SubSeq(q, Len(q) - n + 1, Len(q))

C6_LimitKeepsFreshest ==
    limit >= 1 =>
        /\ DOMAIN storage = {k \in Keys : inserted[k] # <<>>}
        /\ \A k \in DOMAIN storage :
            /\ Len(storage[k]) <= limit
            /\ storage[k] = LastN(inserted[k], limit)

\* an insert has evicted an entry of a full bucket
C6_Witness ==
    /\ limit >= 1
    /\ storeCall.op \in {"insert", "insert_all"}
    /\ \E k \in DOMAIN storage :
        /\ Len(inserted[k]) > limit
        /\ Len(storage[k]) = limit

(***************************************************************************)
(* C7: fetch_all(keys) with adjust = true never raises and returns a map   *)
(* whose key set is exactly the requested keys present in storage with a   *)
(* non-empty bucket, each mapped to the last entry of its bucket; the      *)
(* store is left unchanged.                                                *)
(***************************************************************************)
SeqRange(q) == {q[i] : i \in 1..Len(q)}

C7_FetchAllAdjust ==
    (storeCall.op = "fetch_all" /\ storeCall.adjust /\ storeCall.lim = 0) =>
        /\ storeCall.err = "none"
        /\ DOMAIN storeCall.val =
              {k \in SeqRange(storeCall.keys) :
                  k \in DOMAIN storeCall.before /\ storeCall.before[k] # <<>>}
        /\ \A k \in DOMAIN storeCall.val :
              storeCall.val[k] = Last(storeCall.before[k])
        /\ storage = storeCall.before

\* one call met a key whose bucket was emptied and a key with two entries
C7_Witness ==
    /\ storeCall.op = "fetch_all" /\ storeCall.adjust /\ storeCall.lim = 0
    /\ \E k \in SeqRange(storeCall.keys) :
          k \in DOMAIN storeCall.before /\ storeCall.before[k] = <<>>
    /\ \E k \in SeqRange(storeCall.keys) :
          k \in DOMAIN storeCall.before /\ Len(storeCall.before[k]) >= 2

(***************************************************************************)
(* C3: on a non-reusable Client or Server, over any sequence of connect /  *)
(* bind / close calls, at most one connect or bind ever reaches the raw    *)
(* socket; every later connect or bind, with or without a close in         *)
(* between, fails with a usage error (ValueError).                         *)
(***************************************************************************)
C3_OneConnectOrBind ==
    (sock.kind \in {"Client", "Server"} /\ sock.reuse = "never") =>
        /\ sock.rawConnBind <= 1
        /\ (/\ sockCall.op \in {"connect", "bind"}
            /\ sockCall.before.rawConnBind >= 1)
              => sockCall.err = "ValueError"

(***************************************************************************)
(* C4: after close() on a non-reusable Socket, Client or ServerSideClient, *)
(* every later send and receive call fails with a usage error (ValueError) *)
(* and neither transmits nor reads anything.                               *)
(***************************************************************************)
C4_ClosedRefusesIO ==
    (/\ sock.kind \in {"Socket", "Client", "ServerSideClient"}
     /\ sock.reuse = "never"
     /\ sockCall.op \in {"send", "receive"}
     /\ sockCall.before.closeCalled)
        => (sockCall.err = "ValueError" /\ ~sockCall.io)

(***************************************************************************)
(* C5: a reusable Client can connect again after every close, and          *)
(* connections_count never decreases and increases by exactly one each     *)
(* time a new underlying raw socket is allocated after a close.            *)
(***************************************************************************)
C5_ReusableCount ==
    (sock.kind = "Client" /\ sock.reuse = "always" /\ sockCall.op # "none") =>
        /\ sock.connections_count >= sockCall.before.connections_count
        /\ sock.connections_count - sockCall.before.connections_count
              = sock.allocs - sockCall.before.allocs
        /\ (/\ sockCall.op = "connect"
            /\ sockCall.before.closeCalled
            /\ sockCall.before.raw = "fresh") => sockCall.err = "none"

(***************************************************************************)
(* C1: over a TCP stream every BHP.receive returns, unaltered and in the   *)
(* order sent, the payload of one BHP.send, also when an inner recv(n)     *)
(* delivers fewer than n bytes.                                            *)
(***************************************************************************)
C1_BHPRoundTrip ==
    (/\ link.proto = "BHP"
     /\ ~link.closed
     /\ asSocket
     /\ rxCall.op = "receive") =>
        /\ rxCall.err = "none"
        /\ rxCall.due
        /\ rxCall.data = rxCall.want

(***************************************************************************)
(* C2: BCP.receive called with neither buffer nor length, as               *)
(* Socket.receive calls it, returns the whole payload of the frame -- what *)
(* BHP.receive returns for the same bytes -- and fetches a payload of L    *)
(* bytes through ceil(L / b) inner receives, b being its buffer.           *)
(***************************************************************************)
Ceil(n, d) == (n + d - 1) \div d

C2_BCPReceivesPayload ==
    (/\ link.proto = "BCP"
     /\ ~link.closed
     /\ ~link.short
     /\ asSocket
     /\ rxCall.op = "receive") =>
        /\ rxCall.err = "none"
        /\ rxCall.data = rxCall.want
        /\ rxCall.inner = Ceil(Len(rxCall.want), link.buffer)

(***************************************************************************)
(* C8: when the streamer requires authentication and the controller is not *)
(* authenticated, every received request whose name is not authenticate    *)
(* enqueues exactly one `unauthenticated` response, invokes no endpoint,   *)
(* fires on_unauthenticated, leaves authenticated false and does not close *)
(* the controller.  A request is a frame that loads into a Data (name,     *)
(* time and data present); a frame that does not is answered with          *)
(* `invalid request`.                                                      *)
(***************************************************************************)
UnauthenticatedOutcome ==
    /\ rcv.enqueued = <<Response(rcv.request.name, "unauthenticated")>>
    /\ rcv.endpoint = "none"
    /\ streamer.on_unauthenticated => "on_unauthenticated" \in rcv.fired
    /\ "on_invalid" \notin rcv.fired
    /\ rcv.raised = "none"
    /\ ~rcv.after.authenticated
    /\ rcv.after = rcv.before

C8_Unauthenticated ==
    (/\ streamer.authenticate
     /\ rcv.op = "receive"
     /\ ~rcv.before.authenticated
     /\ rcv.request.name # AUTHENTICATE
     /\ rcv.request.loads) => UnauthenticatedOutcome

C8_Witness ==
    /\ streamer.authenticate
    /\ streamer.on_unauthenticated
    /\ rcv.op = "receive"
    /\ ~rcv.before.authenticated
    /\ rcv.request.name = SUBSCRIBE
    /\ rcv.request.loads
    /\ "on_unauthenticated" \in rcv.fired

(***************************************************************************)
(* C9: while the controller of an authentication-requiring streamer has    *)
(* authenticated = false, no `data` message is enqueued on its send queue, *)
(* under every interleaving of the sender tick with the receiver.          *)
(***************************************************************************)
C9_NoDataWhileUnauthenticated ==
    (streamer.authenticate /\ snd.op = "enqueue") => snd.authenticated

(***************************************************************************)
(* C10: once a controller has been authorized and is subscribed to an      *)
(* event that has a value in the store, and its three loops run, a `data`  *)
(* message carrying the event's latest value is eventually sent, after an  *)
(* authorized authentication response.                                     *)
(*                                                                         *)
(* C10_DataEventuallySent states it for as long as the loops run, and asks *)
(* only for some value of the event.  C10_DataSentWhileSubscribed states   *)
(* it for as long as the loops run and the controller stays authenticated  *)
(* and subscribed to the event; the message carries the value that is the  *)
(* latest as long as the values of the event carry distinct times.         *)
(***************************************************************************)
Running ==
    /\ controller.sender = "running"
    /\ controller.queue_socket = "running"
    /\ ~controller.closed
    /\ streamer.subscribers

Stored(e) == e \in DOMAIN storage /\ storage[e] # <<>>

Subscribed(e) ==
    /\ streamer.authenticate
    /\ controller.authenticated
    /\ e \in subscriber.events
    /\ Stored(e)
    /\ Running

DistinctTimes(e) ==
    \A i, j \in 1..Len(inserted[e]) :
        i < j => inserted[e][i].time # inserted[e][j].time

\* a data message with event e has been sent after an authorized response
DataSent(e) ==
    \E i, j \in 1..Len(out) :
        /\ i < j
        /\ out[i] = Response(AUTHENTICATE, "authorized")
        /\ out[j].kind = "data"
        /\ e \in DOMAIN out[j].data

\* and one of them carries the latest value of e
LatestSent(e) ==
    \E i, j \in 1..Len(out) :
        /\ i < j
        /\ out[i] = Response(AUTHENTICATE, "authorized")
        /\ out[j].kind = "data"
        /\ e \in DOMAIN out[j].data
        /\ Stored(e)
        /\ out[j].data[e] = Last(storage[e])

DataMessages == {i \in 1..Len(out) : out[i].kind = "data"}

C11_ValueSentAtMostOnce ==
    \A e \in Keys : \A i, j \in DataMessages :
        (i < j /\ e \in DOMAIN out[i].data /\ e \in DOMAIN out[j].data)
            => out[i].data[e] # out[j].data[e]

(***************************************************************************)
(* SpecStreamStore: one client of a streamer without authentication, and   *)
(* an application that inserts into the shared store and pops from it.     *)
(***************************************************************************)
InitStreamStore ==
    /\ InitStream
    /\ ~streamer.authenticate
    /\ ~streamer.on_invalid
    /\ ~streamer.on_unauthenticated
    /\ ~streamer.on_leave

\* the application pops an event that has a stored value (a pop that raises
\* leaves the store as it was)
Remove == Pop /\ storeCall'.err = "none" /\ UNCHANGED streamVars

NextStreamStore ==
    \/ NextStream
    \/ Remove /\ UNCHANGED <<sockVars, wireVars, acceptVars, queueVars,
                 memberVars, termVars, restVars>>

SpecStreamStore == InitStreamStore /\ [][NextStreamStore]_vars

(***************************************************************************)
(* C12: for any subscribed event e, the values of e carried by the         *)
(* successive `data` messages sent to the client have non-decreasing time. *)
(***************************************************************************)
C12_NonDecreasingTime ==
    \A e \in Keys : \A i, j \in DataMessages :
        (i < j /\ e \in DOMAIN out[i].data /\ e \in DOMAIN out[j].data)
            => out[i].data[e].time <= out[j].data[e].time

(***************************************************************************)
(* C13: processing a `close` request removes the controller from           *)
(* streamer.clients and from streamer.subscribers and fires on_leave: in   *)
(* the state the close endpoint leaves, the controller is in neither       *)
(* registry and on_leave, when set, has been called.                       *)
(***************************************************************************)
C13_CloseRemovesController ==
    (rcv.op = "receive" /\ rcv.endpoint = CLOSE) =>
        /\ ~streamer.clients
        /\ ~streamer.subscribers
        /\ streamer.on_leave => "on_leave" \in rcv.fired

(***************************************************************************)
(* C14: for every frame a peer can send that is not a valid request -      *)
(* undecodable bytes, JSON that is not an object, an object missing name / *)
(* time / data, or an unknown endpoint name - the receiver tick raises no  *)
(* error into the handler, enqueues exactly one `invalid request`          *)
(* response, fires on_invalid when set, and leaves the controller running  *)
(* as it was.                                                              *)
(***************************************************************************)
InvalidFrame(req, before) ==
    \/ req.json # "object"
    \/ ~req.loads
    \/ /\ req.name \notin DEFAULT_SUBSCRIPTION_ENDPOINT_NAMES
       /\ ~unauthenticated_request(streamer.authenticate, req.name,
                                   before.authenticated)

C14_InvalidFrameAnswered ==
    (rcv.op = "receive" /\ InvalidFrame(rcv.request, rcv.before)) =>
        /\ rcv.raised = "none"
        /\ Len(rcv.enqueued) = 1
        /\ rcv.enqueued[1].response = "invalid request"
        /\ streamer.on_invalid => "on_invalid" \in rcv.fired
        /\ rcv.after = rcv.before

(***************************************************************************)
(* SpecAccept: a listening server, calls of handle and one call of close.  *)
(***************************************************************************)
InitAccept == StoreIdle /\ SockIdle /\ WireIdle /\ StreamIdle /\ AcceptInit
    /\ QueueIdle /\ MemberIdle /\ TermIdle /\ RestIdle

NextAccept ==
    /\ \/ Handle \/ AcceptReturns \/ AcceptInterrupted \/ Construct
       \/ CheckClosed \/ Register \/ StartAction \/ CallAction
       \/ ActionReturns \/ CloseClients \/ CloseRaw \/ CloseConnection
       \/ CloseFlag \/ CloseReturns
    /\ UNCHANGED <<storeVars, sockVars, wireVars, streamVars, queueVars,
                 memberVars, termVars, restVars>>

SpecAccept == InitAccept /\ [][NextAccept]_vars

(***************************************************************************)
(* C15: if server.close() is called while a worker started by handle is    *)
(* blocked in accept, the pending accept returns without an error escaping *)
(* the worker, action is not invoked for it and no client is registered -  *)
(* sequential or not, reusable or not, under every interleaving of close's *)
(* steps with the worker.                                                  *)
(***************************************************************************)
C15_CloseUnblocksAccept ==
    worker.interrupted =>
        /\ worker.err = "none"
        /\ clients[worker.round].action = "none"
        /\ ~clients[worker.round].registered

(***************************************************************************)
(* C16: sequential or not, every ServerSideClient produced by handle is in *)
(* server.clients under its address by the time action(server, client)     *)
(* starts running.                                                         *)
(***************************************************************************)
C16_RegisteredBeforeAction ==
    \A i \in Rounds : clients[i].action # "none" => clients[i].registered

(***************************************************************************)
(* SpecQueue: one send queue, its producers, its operator loop, a call of  *)
(* send_all_queue, stop and close.  SpecQueueFair: the same, where the     *)
(* thread that called send_all_queue keeps running.                        *)
(***************************************************************************)
InitQueue ==
    /\ StoreIdle /\ SockIdle /\ WireIdle /\ StreamIdle /\ AcceptIdle
    /\ QueueInit /\ MemberIdle /\ TermIdle /\ RestIdle

Caller(step) ==
    step /\ UNCHANGED <<storeVars, sockVars, wireVars, streamVars, acceptVars,
                      memberVars, termVars, restVars>>

NextQueue ==
    \/ Caller(Enqueue)
    \/ Caller(DrainTest)
    \/ Caller(DrainPop)
    \/ Caller(DrainSend)
    \/ Caller(Flush)
    \/ Caller(FlushWhile)
    \/ Caller(FlushTest)
    \/ Caller(FlushPop)
    \/ Caller(FlushSend)
    \/ Caller(QueueStop)
    \/ Caller(QueueClose)

SpecQueue == InitQueue /\ [][NextQueue]_vars

SpecQueueFair ==
    /\ InitQueue /\ [][NextQueue]_vars
    /\ WF_vars(Caller(FlushWhile))
    /\ WF_vars(Caller(FlushTest))
    /\ WF_vars(Caller(FlushPop))
    /\ WF_vars(Caller(FlushSend))

(***************************************************************************)
(* C17: for any interleaving of concurrent send calls by several producers *)
(* with the single drain loop (send_all_queue is not called), frames are   *)
(* passed to socket.send in the order in which they were appended to the   *)
(* queue, and no frame is passed more than once.                           *)
(***************************************************************************)
IsAppended(f) == \E i \in 1..Len(appended) : appended[i] = f

C17_SentInEnqueueOrder ==
    flushCall.pc = "idle" =>
        /\ \A i \in 1..Len(passed) : IsAppended(passed[i])
        /\ \A i, j \in 1..Len(passed) : i < j => passed[i].id < passed[j].id

\* frames of two producers, appended while the loop was draining, have
\* been passed
C17_Witness ==
    /\ flushCall.pc = "idle"
    /\ Len(passed) = MaxFrames
    /\ \E i, j \in 1..Len(passed) : passed[i].producer # passed[j].producer

(***************************************************************************)
(* C18: after SocketSenderQueue.close() has returned, the drain operator   *)
(* is stopped, no later tick pops a frame, and the underlying socket is    *)
(* closed.                                                                 *)
(***************************************************************************)
C18_CloseStopsDrain ==
    senderQueue.closed =>
        /\ senderQueue.operator = "stopped"
        /\ ~poppedClosed
        /\ senderQueue.socket = "closed"

(***************************************************************************)
(* C19: send_all_queue, run with no concurrent enqueue, terminates with    *)
(* the queue empty after having passed every frame that was pending at the *)
(* call to socket.send exactly once, in FIFO order.                        *)
(*                                                                         *)
(* C19_FlushPassesEveryFrame states it for every pending frame.            *)
(* C19_FlushDrains states it for the pending frames whose data is not      *)
(* empty, when neither a send nor a tick of the operator loop runs beside  *)
(* the call and socket.send does not raise, and adds that the call ends.   *)
(***************************************************************************)
Alone == ~flushCall.enqueued /\ ~flushCall.drained

C21_CopyIsClone ==
    storeCall.op = "copy" =>
        /\ storeCall.err = "none"
        /\ storeCall.storage = storeCall.before
        /\ storeCall.limit = limit

(***************************************************************************)
(* C22: DataStore.is_valid_key(key) returns true iff key exists in         *)
(* storage, and validate_key(key) fails with the missing-key error iff key *)
(* is absent.                                                              *)
(***************************************************************************)
C22_ValidKeyIffPresent ==
    storeCall.op = "validate_key" =>
        /\ storeCall.val <=> (storeCall.key \in DOMAIN storeCall.before)
        /\ (storeCall.err = "KeyError")
              <=> (storeCall.key \notin DOMAIN storeCall.before)

(***************************************************************************)
(* C23: fetch(key) and pop(key) fail with KeyError iff key is absent and   *)
(* with ValueError iff key is present with an empty bucket, leaving the    *)
(* store unchanged in both cases; otherwise both return the last entry of  *)
(* the bucket, fetch leaving the store unchanged and pop removing exactly  *)
(* that entry.                                                             *)
(***************************************************************************)
C23_FetchPopErrors ==
    storeCall.op \in {"fetch", "pop"} =>
        LET key == storeCall.key
            before == storeCall.before
        IN  /\ storeCall.after = storage
            /\ (storeCall.err = "KeyError") <=> (key \notin DOMAIN before)
            /\ (storeCall.err = "ValueError")
                  <=> (key \in DOMAIN before /\ before[key] = <<>>)
            /\ storeCall.err # "none" => storage = before
            /\ storeCall.err = "none" =>
                  /\ storeCall.val = before[key][Len(before[key])]
                  /\ storeCall.op = "fetch" => storage = before
                  /\ storeCall.op = "pop" =>
                        /\ DOMAIN storage = DOMAIN before
                        /\ \A k \in DOMAIN before \ {key} :
                              storage[k] = before[k]
                        /\ Append(storage[key], storeCall.val) = before[key]

\* a pop has taken the last of two entries
C23_Witness ==
    /\ storeCall.op = "pop"
    /\ storeCall.err = "none"
    /\ Len(storeCall.before[storeCall.key]) = 2
    /\ Len(storage[storeCall.key]) = 1

(***************************************************************************)
(* C24: every `data` message enqueued by the subscription sender carries a *)
(* non-empty delta map, and a sender tick that finds nothing new for the   *)
(* subscriber enqueues nothing.                                            *)
(***************************************************************************)
\* what the sender tick at line 827 is about to read from the store
SenderDelta ==
    Delta(fetch_all(storage, SetToSeq(subscriber.events), TRUE, 0, 0).val,
          subscriber.data)

C24_NoEmptyDelta ==
    /\ [](/\ \A i \in 1..Len(sendQueue) :
                sendQueue[i].kind = "data" => DOMAIN sendQueue[i].data # {}
          /\ \A i \in 1..Len(out) :
                out[i].kind = "data" => DOMAIN out[i].data # {})
    /\ [][/\ Len(sendQueue') > Len(sendQueue)
                /\ sendQueue'[Len(sendQueue')].kind = "data"
             => senderTick.pc = "send" /\ DOMAIN senderTick.data # {}
          /\ senderTick.pc = "fetch" /\ senderTick' # senderTick
                /\ SenderDelta = EmptyDict
             => sendQueue' = sendQueue /\ senderTick' = NoTick]_vars

\* after a data message was enqueued, a later tick reads the store and finds
\* nothing new
C24_Witness ==
    /\ DataMessages # {}
    /\ senderTick.pc = "fetch"
    /\ subscriber.events # {}
    /\ SenderDelta = EmptyDict

(***************************************************************************)
(* SpecMember: the streamer of SpecStream, with the history of the         *)
(* subscribe requests that a sender tick has yet to serve.                 *)
(***************************************************************************)
\* the streamer has no callbacks: none of them touches the subscriptions
InitMember ==
    /\ InitStream
    /\ ~streamer.on_invalid
    /\ ~streamer.on_unauthenticated
    /\ ~streamer.on_leave

\* a step of one of the controller's threads, the history left to the caller
Tick(step) ==
    step /\ UNCHANGED <<storeVars, sockVars, wireVars, acceptVars, queueVars,
                      termVars, restVars>>

\* the receiver processes a request: a subscribe makes its events fresh, an
\* unsubscribe withdraws them
Membership ==
    /\ Tick(ReceiverTick)
    /\ LET ended == receiverTick'.pc = "idle" /\ rcv'.raised = "none"
           evs == rcv'.request.events
       IN  IF ended /\ rcv'.endpoint = SUBSCRIBE
           THEN /\ fresh' = fresh \cup evs
                /\ pending' = pending
                /\ left' = left \ evs
           ELSE IF ended /\ rcv'.endpoint = UNSUBSCRIBE
           THEN /\ fresh' = fresh \ evs
                /\ pending' = pending \ evs
                /\ left' = left \cup evs
           ELSE UNCHANGED memberVars

\* a sender tick starts: it is the first tick after the fresh subscribes
TickStarts ==
    /\ Tick(SenderGate)
    /\ IF senderTick'.pc = "call"
       THEN pending' = fresh /\ fresh' = {} /\ left' = left
       ELSE UNCHANGED memberVars

\* a step of the sender tick in progress; the tick ends when it is idle again
TickStep(step) ==
    /\ Tick(step)
    /\ fresh' = fresh
    /\ left' = left
    /\ pending' = IF senderTick'.pc = "idle" THEN {} ELSE pending

NextMember ==
    \/ Produce /\ UNCHANGED <<sockVars, wireVars, acceptVars, queueVars,
                              memberVars, termVars, restVars>>
    \/ Membership
    \/ Thread(Respond)
    \/ TickStarts
    \/ TickStep(SenderCall)
    \/ TickStep(SenderFetch)
    \/ TickStep(SenderSend)
    \/ Thread(Drain)

SpecMember == InitMember /\ [][NextMember]_vars

\* the step in which the sender tick in progress reads the store
Fetches == senderTick.pc = "fetch" /\ senderTick' # senderTick

\* the step in which the outcome of the sender tick in progress is decided
Decides ==
    /\ senderTick.pc \in {"call", "fetch"}
    /\ senderTick'.pc \in {"idle", "send"}

\* the receiver processes a subscribe or an unsubscribe request
ChangesMembership ==
    /\ requests' = requests + 1
    /\ receiverTick'.pc = "idle"
    /\ rcv'.endpoint \in {SUBSCRIBE, UNSUBSCRIBE}

\* a tick that reads the store after an unsubscribe for e, so every tick
\* that starts after it, puts in its message no e
C25_Unsubscribed ==
    /\ Fetches /\ senderTick'.pc = "send"
          => DOMAIN senderTick'.data \cap left = {}
    /\ senderTick.pc = "send" /\ senderTick' # senderTick
          => sendQueue' = Append(sendQueue, DataMessage(senderTick.data))

\* the send queue only grows at its end and shrinks by a delivery of its
\* head; a membership change leaves it as it is
C25_NoPurge ==
    /\ \/ \E i \in 0..Len(sendQueue') :
             /\ i >= Len(sendQueue)
             /\ sendQueue = SubSeq(sendQueue', 1, Len(sendQueue))
             /\ out' = out
       \/ /\ sendQueue # <<>>
          /\ sendQueue' = Tail(sendQueue)
          /\ out' = Append(out, Head(sendQueue))
    /\ ChangesMembership => sendQueue' = sendQueue /\ out' = out

AUTHORIZED == "authorized"
REQUEST == "request"
DataFields == {"name", "time", "data"}

JsonStr(s) == [json |-> "str", str |-> s]
JsonBool(b) == [json |-> "bool", bool |-> b]
JsonObject(keys, d) == [json |-> "object", keys |-> keys, value |-> d]

\* Data.dump() of an event value
Dumped(d) == JsonObject(DataFields, d)

\* what a client can have sent: a dumped Data, the {} that stands for a
\* frame that did not decode, an object without the fields of a Data
RequestPayloads ==
    {Dumped(Data(SUBSCRIBE, 0, 0)), JsonObject({}, Data(None, None, None)),
     JsonObject({"name", "other"}, None)}

\* subscribed_stored_data_sender, lines 836-839: the `data` event carrier
Carrier(ds) ==
    [name |-> DATA, kind |-> "data",
     items |-> [i \in 1..Len(ds) |-> [key |-> ds[i].name,
                                      value |-> Dumped(ds[i])]]]

\* streamer_receive, lines 540-551: the error response
ErrorResponse(response, payload) ==
    [name |-> IF "name" \in payload.keys THEN SUBSCRIBE ELSE RESPONSE,
     kind |-> "response",
     items |-> <<[key |-> RESPONSE, value |-> JsonStr(response)],
                 [key |-> REQUEST, value |-> payload]>>]

\* client_authentication, lines 598-610: the authenticate response
AuthenticateResponse(authorized) ==
    [name |-> AUTHENTICATE, kind |-> "response",
     items |-> <<[key |-> RESPONSE,
                  value |-> JsonStr(IF authorized THEN "authorized"
                                    ELSE "unauthorized")],
                 [key |-> AUTHORIZED, value |-> JsonBool(authorized)],
                 [key |-> REQUEST,
                  value |-> Dumped(Data(AUTHENTICATE, 0, 0))]>>]

ServerResponses ==
    {ErrorResponse(r, p) :
        r \in {"invalid request", "unauthenticated"}, p \in RequestPayloads}
    \cup {AuthenticateResponse(a) : a \in BOOLEAN}

\* Data(**values): values must be a mapping, its keys fields of Data
Data_kwargs(values) ==
    IF values.json = "object" /\ values.keys \subseteq DataFields
    THEN [err |-> "none", val |-> values.value]
    ELSE [err |-> "TypeError", val |-> None]

\* the dict comprehension of lines 197-200: every item is converted
LoadItems(items) ==
    IF \E i \in 1..Len(items) : Data_kwargs(items[i].value).err # "none"
    THEN [err |-> "TypeError"]
    ELSE [err |-> "none"]

\* insert_all over the generator of lines 208-211: the items are converted
\* one by one, and those before the first that fails are inserted
RECURSIVE InsertItems(_, _, _)
InsertItems(st, lim, items) ==
    IF items = <<>> THEN [err |-> "none", st |-> st, ds |-> <<>>]
    ELSE LET d == Data_kwargs(Head(items).value)
         IN  IF d.err # "none"
             THEN [err |-> d.err, st |-> st, ds |-> <<>>]
             ELSE LET rest == InsertItems(insert(st, lim, d.val), lim,
                                          Tail(items))
                  IN  [rest EXCEPT !.ds = <<d.val>> \o @]

\* ClientSubscriber.data(insert, load) on a received message.  The `data`
\* entry of every message of the server is a dict; self.storage is a
\* DataStore, which is truthy.
ClientSubscriber_data(st, lim, message, ins, load) ==
    LET loaded == IF load THEN LoadItems(message.items)
                  ELSE [err |-> "none"]
        stored == IF ins THEN InsertItems(st, lim, message.items)
                  ELSE [err |-> "none", st |-> st, ds |-> <<>>]
    IN  IF loaded.err # "none"
        THEN [err |-> loaded.err, st |-> st, ds |-> <<>>]
        ELSE stored

\* the `data` carriers a server can send next: one or two event values
Carriers ==
    {Carrier(<<d>>) : d \in NewData(nextId, clock)}
    \cup {Carrier(<<d1, d2>>) :
             d1 \in {d \in NewData(nextId, clock) : d.name = "a"},
             d2 \in {d \in NewData(nextId + 1, clock) : d.name = "b"}}

\* one call of ClientSubscriber.data()
ClientData ==
    /\ nextId + 1 <= MaxInserts
    /\ \E message \in Carriers \cup ServerResponses, ins \in BOOLEAN,
          load \in BOOLEAN :
        LET r == ClientSubscriber_data(storage, limit, message, ins, load)
        IN  /\ storage' = r.st
            /\ inserted' =
                  [k \in Keys |->
                      inserted[k]
                      \o SelectSeq(r.ds, LAMBDA d : d.name = k)]
            /\ storeCall' = [op |-> "data", message |-> message,
                             insert |-> ins, load |-> load, err |-> r.err,
                             ds |-> r.ds, before |-> storage]
            /\ nextId' = nextId + (IF message.kind = "data"
                                   THEN Len(message.items) ELSE 0)
    /\ UNCHANGED <<limit, clock>>

(***************************************************************************)
(* SpecClient: a ClientSubscriber with a local store receives messages of  *)
(* a streamer.                                                             *)
(***************************************************************************)
InitClient == InitStore

NextClient ==
    /\ ClientData
    /\ UNCHANGED <<sockVars, wireVars, streamVars, acceptVars, queueVars,
                 memberVars, termVars, restVars>>

SpecClient == InitClient /\ [][NextClient]_vars

\* the event values nested in a message: the values of a `data` carrier
NestedEvents(message) ==
    IF message.kind = "data"
    THEN [i \in 1..Len(message.items) |-> message.items[i].value.value]
    ELSE <<>>

(***************************************************************************)
(* C26: for every wire message the server can emit (a `data` event         *)
(* carrier, an authenticate response, an `invalid request` or              *)
(* `unauthenticated` error response) ClientSubscriber.data() returns the   *)
(* decoded Data without raising, and inserts into the local store only the *)
(* nested event entries of that message.                                   *)
(***************************************************************************)
C26_DataNeverRaises ==
    storeCall.op = "data" /\ storeCall.insert /\ storeCall.load =>
        /\ storeCall.err = "none"
        /\ storeCall.ds = NestedEvents(storeCall.message)
        /\ storage = insert_all(storeCall.before, limit, storeCall.ds)

(***************************************************************************)
(* C27: Server.listen() on a server that is neither bound nor has a saved  *)
(* (prebind) address fails with a usage error and leaves listening false;  *)
(* in every reachable state of a Server, listening implies bound.          *)
(***************************************************************************)
C27_ListenRequiresBound ==
    /\ sock.kind = "Server" /\ sock.listening => sock.bound
    /\ /\ sockCall.op = "listen"
       /\ ~sockCall.before.bound
       /\ ~sockCall.before.address
       => /\ sockCall.err = "ValueError"
          /\ ~sock.listening
          /\ ~sock.bound

\* listen() has been refused on a server without binding or saved address
C27_Witness ==
    /\ sockCall.op = "listen"
    /\ ~sockCall.before.bound
    /\ ~sockCall.before.address
    /\ ~sockCall.before.closed
    /\ sockCall.err = "ValueError"

(***************************************************************************)
(* C29: the on_bind callback given to Server runs once after every         *)
(* successful bind, and the on_listen callback runs once after every       *)
(* successful listen.                                                      *)
(***************************************************************************)
C29_BindListenCallbacks ==
    /\ sockCall.op = "bind" /\ sockCall.err = "none" => sock.on_bind
    /\ sockCall.op = "listen" /\ sockCall.err = "none" => sock.on_listen

\* the bytes of the stream when every payload still due is framed in it
RECURSIVE Frames(_)
Frames(payloads) ==
    IF payloads = <<>> THEN <<>>
    ELSE BHP_send(Head(payloads)) \o Frames(Tail(payloads))

\* this step is the header read of a receive called without a buffer
ReadsHeader ==
    /\ rx.pc = "idle"
    /\ receives' = receives + 1
    /\ \/ rx'.pc = "body" /\ rx'.buffer = NoInt
       \/ rx'.pc = "idle" /\ rxCall'.buffer = NoInt

\* the receive that began in this step has returned b'' without an error
ReturnsEmpty ==
    /\ rx'.pc = "idle"
    /\ rxCall'.err = "none"
    /\ rxCall'.data = <<>>
    /\ rxCall'.inner = 0

(***************************************************************************)
(* C28: BHP.receive with no explicit buffer returns empty bytes and raises *)
(* no error whenever the header read is empty or consists only of '0'      *)
(* characters; in particular a send of an empty payload makes the peer's   *)
(* receive return empty bytes.                                             *)
(***************************************************************************)
C28_ZeroHeaderIsEmpty ==
    [][link.proto = "BHP" /\ ReadsHeader =>
          LET header == SubSeq(wire, 1, Len(wire) - Len(wire'))
          IN  /\ (\A i \in 1..Len(header) : header[i] = "0") => ReturnsEmpty
              /\ /\ expect # <<>>
                 /\ Head(expect) = <<>>
                 /\ wire = Frames(expect)
                 => ReturnsEmpty /\ header # <<>>]_vars

\* the peer was sent an empty payload and its receive has returned b''
\* after reading the whole header of zeros
C28_Witness ==
    /\ link.proto = "BHP"
    /\ rxCall.op = "receive"
    /\ rxCall.buffer = NoInt
    /\ rxCall.due
    /\ rxCall.want = <<>>
    /\ rxCall.err = "none"
    /\ rxCall.data = <<>>
    /\ wire = Frames(expect)

(***************************************************************************)
(* pubsub/streamer.py, StreamController.__init__: the termination action   *)
(* installed on the send queue.  The queue is a looperator Operator; it is *)
(* taken to call its termination attribute once when its loop has been     *)
(* stopped, on a thread of its own, while the controller's methods can be  *)
(* called from other threads.  The callbacks return.                       *)
(***************************************************************************)
\* ticks of the receiver counted after the peer has closed
MaxEmptyReads == 2

\* a tuple that stops the operators before it closes the socket
termination_stops_first(saved, own) ==
    <<"sender.stop", "receiver.stop", "socket.close">>
    \o (IF saved THEN <<"saved_termination">> ELSE <<>>)
    \o (IF own THEN <<"termination">> ELSE <<>>)

\* lines 101-109: the calls the lambda's tuple makes, left to right
queue_socket_termination(saved, own) ==
    <<"socket.close", "sender.stop", "receiver.stop">>
    \o (IF saved THEN <<"saved_termination">> ELSE <<>>)
    \o (IF own THEN <<"termination">> ELSE <<>>)

\* Socket.close, lines 246-263: a reusable socket gets a fresh connection
closed_socket(reusable) == IF reusable THEN "fresh" ELSE "closed"

\* StreamController.__init__ and run: the three operators are running
TermInit ==
    wiring \in [pc : {"running"}, saved : BOOLEAN, own : BOOLEAN,
                reusable : BOOLEAN, callback : BOOLEAN,
                registered : {TRUE}, handling : {"idle"},
                raised : {<<>>}, called : {<<>>},
                method : {"none"}, calls : {<<>>}, made : {<<>>},
                queue_socket : {"running"}, sender : {"running"},
                receiver : {"running"}, socket : {"open"},
                peer : {"open"}, empties : {0},
                todo : {<<>>}, performed : {<<>>}]

\* StreamController.pause, lines 218-223: the operators in statement order
StreamController_pause == <<"sender", "receiver", "queue_socket">>

\* StreamController.unpause, lines 225-230: the operators in statement order
StreamController_unpause == <<"queue_socket", "sender", "receiver">>

\* StreamController.pause
ControllerPause ==
    /\ wiring.method = "none"
    /\ wiring' = [wiring EXCEPT !.method = "pause",
                                !.calls = StreamController_pause,
                                !.made = <<>>]

\* StreamController.unpause
ControllerUnpause ==
    /\ wiring.method = "none"
    /\ wiring' = [wiring EXCEPT !.method = "unpause",
                                !.calls = StreamController_unpause,
                                !.made = <<>>]

\* the next statement of pause / unpause
ControllerSwitch ==
    /\ wiring.method # "none"
    /\ wiring.calls # <<>>
    /\ LET call == Head(wiring.calls)
           switched(state) == IF wiring.method = "pause"
                              THEN pause(state) ELSE unpause(state)
       IN  wiring' = [wiring EXCEPT
                         !.calls = Tail(@),
                         !.made = Append(@, call),
                         !.sender = IF call = "sender"
                                    THEN switched(@) ELSE @,
                         !.receiver = IF call = "receiver"
                                      THEN switched(@) ELSE @,
                         !.queue_socket = IF call = "queue_socket"
                                          THEN switched(@) ELSE @]

\* pause / unpause returns
ControllerSwitched ==
    /\ wiring.method # "none"
    /\ wiring.calls = <<>>
    /\ wiring' = [wiring EXCEPT !.method = "none"]

\* the pause endpoint: controller.sender.pause()
PauseEndpoint == wiring' = [wiring EXCEPT !.sender = pause(@)]

\* the unpause endpoint: controller.sender.unpause()
UnpauseEndpoint == wiring' = [wiring EXCEPT !.sender = unpause(@)]

\* StreamController.stop
ControllerStop ==
    /\ wiring.queue_socket # "stopped"
    /\ wiring' = [wiring EXCEPT !.receiver = stop(@), !.sender = stop(@),
                                !.queue_socket = stop(@)]

\* StreamController.close: stop(), then queue_socket.close()
ControllerClose ==
    /\ wiring.socket # "closed"
    /\ wiring' = [wiring EXCEPT !.receiver = stop(@), !.sender = stop(@),
                                !.queue_socket = stop(@),
                                !.socket = closed_socket(wiring.reusable)]

\* a callback that serves the previous callback first
exception_callback_saved_first(saved) ==
    (IF saved THEN <<"saved_callback">> ELSE <<>>) \o <<"queue_socket.stop">>

\* lines 115-118: the calls the lambda's tuple makes, left to right
exception_callback(saved) ==
    <<"queue_socket.stop">> \o (IF saved THEN <<"saved_callback">> ELSE <<>>)

\* the operation of a running operator raises into the shared handler,
\* which calls its exception_callback
OperationRaises ==
    /\ wiring.handling = "idle"
    /\ "running" \in {wiring.sender, wiring.receiver, wiring.queue_socket}
    /\ wiring' = [wiring EXCEPT !.handling = "calling",
                                !.raised = exception_callback(wiring.callback),
                                !.called = <<>>]

\* the next element of the callback's tuple is evaluated; the callback
\* saved from Streamer.controller (line 477) pops the controller from
\* streamer.clients
ExceptionCallback ==
    /\ wiring.handling = "calling"
    /\ wiring.raised # <<>>
    /\ LET call == Head(wiring.raised)
       IN  wiring' = [wiring EXCEPT
                         !.raised = Tail(@),
                         !.called = Append(@, call),
                         !.queue_socket = IF call = "queue_socket.stop"
                                          THEN stop(@) ELSE @,
                         !.registered = IF call = "saved_callback"
                                        THEN FALSE ELSE @]

\* the callback returns its tuple
CallbackReturns ==
    /\ wiring.handling = "calling"
    /\ wiring.raised = <<>>
    /\ wiring' = [wiring EXCEPT !.handling = "handled"]

\* the handler is ready for the next exception
HandlerReturns ==
    /\ wiring.handling = "handled"
    /\ wiring' = [wiring EXCEPT !.handling = "idle"]

\* the loop of the queue operator has ended: its termination is called
QueueTerminates ==
    /\ wiring.pc = "running"
    /\ wiring.queue_socket = "stopped"
    /\ wiring' = [wiring EXCEPT
                     !.pc = "terminating",
                     !.todo = queue_socket_termination(wiring.saved,
                                                       wiring.own)]

\* the next element of the tuple is evaluated
TerminationCall ==
    /\ wiring.pc = "terminating"
    /\ wiring.todo # <<>>
    /\ LET call == Head(wiring.todo)
       IN  wiring' = [wiring EXCEPT
                         !.todo = Tail(@),
                         !.performed = Append(@, call),
                         !.socket = IF call = "socket.close" /\ @ # "closed"
                                    THEN closed_socket(wiring.reusable)
                                    ELSE @,
                         !.sender = IF call = "sender.stop" THEN stop(@)
                                    ELSE @,
                         !.receiver = IF call = "receiver.stop" THEN stop(@)
                                      ELSE @]

\* the lambda returns its tuple
TerminationReturns ==
    /\ wiring.pc = "terminating"
    /\ wiring.todo = <<>>
    /\ wiring' = [wiring EXCEPT !.pc = "terminated"]

\* the peer closes its side of the TCP connection
PeerCloses ==
    /\ wiring.peer = "open"
    /\ wiring' = [wiring EXCEPT !.peer = "closed"]

\* a tick of the receiver after the peer has closed, streamer_receive lines
\* 508-511: recv gives no bytes, BHP.receive returns b'' (protocols.py
\* lines 694-699), and `if not received: return` ends the tick
ReceiverReads ==
    /\ wiring.receiver = "running"
    /\ wiring.peer = "closed"
    /\ wiring.socket = "open"
    /\ wiring' = [wiring EXCEPT !.empties = Min(@ + 1, MaxEmptyReads)]

(***************************************************************************)
(* SpecTerminate: one controller, the calls of its methods, and the        *)
(* termination of its send queue.                                          *)
(***************************************************************************)
InitTerminate ==
    /\ StoreIdle /\ SockIdle /\ WireIdle /\ StreamIdle /\ AcceptIdle
    /\ QueueIdle /\ MemberIdle /\ TermInit /\ RestIdle

NextTerminate ==
    /\ \/ ControllerPause
       \/ ControllerUnpause
       \/ ControllerSwitch
       \/ ControllerSwitched
       \/ PauseEndpoint
       \/ UnpauseEndpoint
       \/ ControllerStop
       \/ ControllerClose
       \/ OperationRaises
       \/ ExceptionCallback
       \/ CallbackReturns
       \/ HandlerReturns
       \/ QueueTerminates
       \/ TerminationCall
       \/ TerminationReturns
       \/ PeerCloses
       \/ ReceiverReads
    /\ UNCHANGED <<storeVars, sockVars, wireVars, streamVars, acceptVars,
                   queueVars, memberVars, restVars>>

SpecTerminate == InitTerminate /\ [][NextTerminate]_vars

\* a step of one of the controller's threads
Wired(step) ==
    step /\ UNCHANGED <<storeVars, sockVars, wireVars, streamVars, acceptVars,
                        queueVars, memberVars, restVars>>

\* a controller made by Streamer.controller with on_disconnect set: it has
\* a termination of its own and the callback that pops it from the registry
InitPeer ==
    /\ InitTerminate
    /\ wiring.own /\ wiring.callback /\ ~wiring.saved

\* SpecPeer: the controller of a Streamer, where every thread that can step
\* does; the calls of the controller's methods by the application and the
\* raising of an operation are not bound to happen
SpecPeer ==
    /\ InitPeer /\ [][NextTerminate]_vars
    /\ WF_vars(Wired(ReceiverReads))
    /\ WF_vars(Wired(ControllerSwitch))
    /\ WF_vars(Wired(ControllerSwitched))
    /\ WF_vars(Wired(ExceptionCallback))
    /\ WF_vars(Wired(CallbackReturns))
    /\ WF_vars(Wired(HandlerReturns))
    /\ WF_vars(Wired(QueueTerminates))
    /\ WF_vars(Wired(TerminationCall))
    /\ WF_vars(Wired(TerminationReturns))

\* s is a prefix of t
IsPrefix(s, t) == Len(s) <= Len(t) /\ s = SubSeq(t, 1, Len(s))

(***************************************************************************)
(* C30: when a controller's send queue operator terminates, its            *)
(* termination action performs, in this order and each exactly once: close *)
(* the socket, stop the sender, stop the receiver, call the termination    *)
(* that was installed on the queue before (if any), call the controller's  *)
(* own termination (if any).                                               *)
(***************************************************************************)
C30_TerminationOrder ==
    LET expected ==
            <<"socket.close", "sender.stop", "receiver.stop">>
            \o (IF wiring.saved THEN <<"saved_termination">> ELSE <<>>)
            \o (IF wiring.own THEN <<"termination">> ELSE <<>>)
    IN  /\ IsPrefix(wiring.performed, expected)
        /\ wiring.pc = "running" => wiring.performed = <<>>
        /\ wiring.pc = "terminated" =>
              /\ wiring.performed = expected
              /\ wiring.socket # "open"
              /\ ~wiring.reusable => wiring.socket = "closed"
              /\ wiring.sender = "stopped"
              /\ wiring.receiver = "stopped"

\* the termination action has returned after all five calls
C30_Witness ==
    /\ wiring.pc = "terminated"
    /\ wiring.saved
    /\ wiring.own
    /\ Len(wiring.performed) = 5

C32_PauseUnpauseOrder ==
    /\ wiring.method = "pause" =>
          IsPrefix(wiring.made, <<"sender", "receiver", "queue_socket">>)
    /\ wiring.method = "unpause" =>
          IsPrefix(wiring.made, <<"queue_socket", "receiver", "sender">>)

\* the part of C32 about pause alone
C32_PauseOrder ==
    wiring.method = "pause" =>
        IsPrefix(wiring.made, <<"sender", "receiver", "queue_socket">>)

(***************************************************************************)
(* The delay of a Streamer and of its controllers, in microseconds.        *)
(***************************************************************************)

\* StreamController.MIN_DELAY, 0.00001 seconds
MIN_DELAY == 10

\* the delays handed to constructors and setters
DelayValues == {0, 5, 10, 20}

\* the addresses of the clients of the streamer
DelayClients == {"a", "b"}

\* StreamController.__init__: self._delay = delay, and both operators are
\* made with delay=self.delay; None is NoInt
StreamController_init(delay) ==
    [delay |-> delay, sender |-> delay, receiver |-> delay]

\* the setter of StreamController.delay
StreamController_delay(value) ==
    LET d == IF value < MIN_DELAY THEN MIN_DELAY ELSE value
    IN  [delay |-> d, sender |-> d, receiver |-> d]

\* Streamer.__init__: self._delay = delay or self.MIN_DELAY
Streamer_init(delay) ==
    IF delay = NoInt \/ delay = 0 THEN MIN_DELAY ELSE delay

\* the setter of Streamer.delay: its own delay is clamped, and every
\* controller of the registry is given the value through its setter
Streamer_delay(t, value) ==
    [t EXCEPT !.streamer = IF value < MIN_DELAY THEN MIN_DELAY ELSE value,
              !.clients = [a \in DOMAIN t.clients |->
                              StreamController_delay(value)]]

DelayInit ==
    timing \in [pc : {"delay"},
                streamer : {Streamer_init(d) : d \in DelayValues \cup {NoInt}},
                clients : {<<>>},
                lone : {<<>>}]

\* StreamController(socket, delay=d) made without a streamer
NewController ==
    /\ timing.lone = <<>>
    /\ \E d \in DelayValues \cup {NoInt} :
          timing' = [timing EXCEPT !.lone = <<StreamController_init(d)>>]

\* Streamer.controller: the controller is made with delay=self.delay and
\* registered under the address of its socket
StreamerController ==
    \E a \in DelayClients \ DOMAIN timing.clients :
        timing' = [timing EXCEPT
                      !.clients = [b \in DOMAIN @ \cup {a} |->
                                      IF b = a
                                      THEN StreamController_init(timing.streamer)
                                      ELSE @[b]]]

\* controller.delay = value
ControllerSetDelay ==
    \E value \in DelayValues :
        \/ /\ timing.lone # <<>>
           /\ timing' = [timing EXCEPT
                            !.lone = <<StreamController_delay(value)>>]
        \/ \E a \in DOMAIN timing.clients :
              timing' = [timing EXCEPT
                            !.clients[a] = StreamController_delay(value)]

\* streamer.delay = value
StreamerSetDelay ==
    \E value \in DelayValues : timing' = Streamer_delay(timing, value)

\* the exception callback or the close endpoint pops the controller
ControllerLeaves ==
    \E a \in DOMAIN timing.clients :
        timing' = [timing EXCEPT
                      !.clients = [b \in DOMAIN @ \ {a} |-> @[b]]]

InitDelay ==
    /\ StoreIdle /\ SockIdle /\ WireIdle /\ StreamIdle /\ AcceptIdle
    /\ QueueIdle /\ MemberIdle /\ TermIdle /\ DelayInit /\ RaceIdle
    /\ RegistryIdle /\ ServiceIdle /\ ReadingIdle
    /\ SessionIdle

NextDelay ==
    /\ \/ NewController
       \/ StreamerController
       \/ ControllerSetDelay
       \/ StreamerSetDelay
       \/ ControllerLeaves
    /\ UNCHANGED <<storeVars, sockVars, wireVars, streamVars, acceptVars,
                   queueVars, memberVars, termVars, raceVars,
                   registryVars, serviceVars, readingVars,
                   sessionVars>>

SpecDelay == InitDelay /\ [][NextDelay]_vars

\* the controllers there are
Controllers ==
    {timing.clients[a] : a \in DOMAIN timing.clients}
    \cup {timing.lone[i] : i \in DOMAIN timing.lone}

(***************************************************************************)
(* C33: in every reachable state a controller's sender and receiver        *)
(* operators both tick with the controller's delay, and that delay is at   *)
(* least MIN_DELAY, whether the delay was given at construction (of the    *)
(* StreamController or of the Streamer) or changed later through the       *)
(* controller's or the streamer's delay setter.                            *)
(***************************************************************************)
C33_DelayAtLeastMin ==
    \A c \in Controllers :
        /\ c.sender = c.delay
        /\ c.receiver = c.delay
        /\ c.delay >= MIN_DELAY

\* the operators always tick with the controller's delay
C33_OperatorsFollow ==
    \A c \in Controllers : c.sender = c.delay /\ c.receiver = c.delay

\* a delay set through a setter is at least MIN_DELAY
C33_SettersClamp ==
    [][\A a \in DOMAIN timing.clients \cap DOMAIN timing'.clients :
          timing'.clients[a] # timing.clients[a] =>
              timing'.clients[a].delay >= MIN_DELAY]_vars

(***************************************************************************)
(* SpecRace: one DataStore used by a producer thread (insert, pop, empty)  *)
(* and a reader thread (fetch_all with adjust, fetch_queue).  store.py     *)
(* takes no lock, so the threads interleave between the statements of      *)
(* their methods; each action below is one such statement.                 *)
(***************************************************************************)

\* calls the producer makes in one behaviour
MaxProducerCalls == 3

\* the key both threads use
RaceKey == "a"

RaceInit ==
    shared \in [pc : {"race"},
                storage : {EmptyDict},
                limit : 1..MaxLimit,
                producer : {"idle"},
                produced : {0},
                reader : {"idle"},
                method : {"none"},
                observed : {0},
                err : {"none"},
                returned : {FALSE}]

\* insert, line 36: queue = self.storage.setdefault(data.name, [])
ProducerSetDefault ==
    /\ shared.producer = "idle"
    /\ shared.produced < MaxProducerCalls
    /\ shared' = [shared EXCEPT
                     !.producer = "append",
                     !.produced = @ + 1,
                     !.storage = IF RaceKey \in DOMAIN @ THEN @
                                 ELSE DictSet(@, RaceKey, <<>>)]

\* insert, line 38: queue.append(data)
ProducerAppend ==
    /\ shared.producer = "append"
    /\ shared' = [shared EXCEPT
                     !.producer = "evict",
                     !.storage[RaceKey] = Append(@, shared.produced)]

\* insert, lines 40-42: while len(queue) > self.limit: queue.pop(0)
ProducerEvict ==
    /\ shared.producer = "evict"
    /\ IF shared.limit # 0 /\ Len(shared.storage[RaceKey]) > shared.limit
       THEN shared' = [shared EXCEPT !.storage[RaceKey] = Tail(@)]
       ELSE shared' = [shared EXCEPT !.producer = "idle"]

\* DataStore.pop(key) by the producer, the only thread that writes
ProducerPop ==
    /\ shared.producer = "idle"
    /\ shared.produced < MaxProducerCalls
    /\ shared' = [shared EXCEPT
                     !.produced = @ + 1,
                     !.storage = pop(@, RaceKey).st]

\* DataStore.empty() by the producer
ProducerEmpty ==
    /\ shared.producer = "idle"
    /\ shared.produced < MaxProducerCalls
    /\ shared' = [shared EXCEPT !.produced = @ + 1,
                                !.storage = empty(@)]

\* the reader calls fetch_all([key], adjust=True) or fetch_queue(key)
ReaderCalls ==
    /\ shared.reader = "idle"
    /\ \E method \in {"fetch_all", "fetch_queue"} :
          shared' = [shared EXCEPT !.reader = "validate_key",
                                   !.method = method,
                                   !.observed = 0,
                                   !.err = "none",
                                   !.returned = FALSE]

\* fetch, line 87 and fetch_queue, line 209: self.validate_key(key=key);
\* the KeyError is caught by fetch_all (adjust) and by fetch_queue
ReaderValidates ==
    /\ shared.reader = "validate_key"
    /\ IF validate_key(shared.storage, RaceKey) = "none"
       THEN shared' = [shared EXCEPT
                          !.reader = IF shared.method = "fetch_all"
                                     THEN "len" ELSE "copy"]
       ELSE shared' = [shared EXCEPT !.reader = "idle", !.returned = TRUE]

\* fetch, lines 89-94: queue = self.storage[key]; if len(queue) == 0: raise
\* ValueError, which fetch_all catches
ReaderLen ==
    /\ shared.reader = "len"
    /\ LET queue == shared.storage[RaceKey]
       IN  IF Len(queue) = 0
           THEN shared' = [shared EXCEPT !.reader = "idle",
                                         !.returned = TRUE,
                                         !.observed = 0]
           ELSE shared' = [shared EXCEPT !.reader = "index",
                                         !.observed = Len(queue)]

\* fetch, line 96: return queue[-1]; an empty list raises IndexError, which
\* fetch_all does not catch
ReaderIndex ==
    /\ shared.reader = "index"
    /\ LET queue == shared.storage[RaceKey]
       IN  shared' = [shared EXCEPT
                         !.reader = "idle",
                         !.returned = TRUE,
                         !.err = IF queue = <<>> THEN "IndexError"
                                 ELSE "none"]

\* fetch_queue, line 211: return self.storage[key].copy()
ReaderCopy ==
    /\ shared.reader = "copy"
    /\ shared' = [shared EXCEPT
                     !.reader = "idle",
                     !.returned = TRUE,
                     !.observed = Len(shared.storage[RaceKey])]

InitRace ==
    /\ StoreIdle /\ SockIdle /\ WireIdle /\ StreamIdle /\ AcceptIdle
    /\ QueueIdle /\ MemberIdle /\ TermIdle /\ DelayIdle /\ RaceInit
    /\ RegistryIdle /\ ServiceIdle /\ ReadingIdle
    /\ SessionIdle

NextRace ==
    /\ \/ ProducerSetDefault
       \/ ProducerAppend
       \/ ProducerEvict
       \/ ProducerPop
       \/ ProducerEmpty
       \/ ReaderCalls
       \/ ReaderValidates
       \/ ReaderLen
       \/ ReaderIndex
       \/ ReaderCopy
    /\ UNCHANGED <<storeVars, sockVars, wireVars, streamVars, acceptVars,
                   queueVars, memberVars, termVars, delayVars,
                   registryVars, serviceVars, readingVars,
                   sessionVars>>

SpecRace == InitRace /\ [][NextRace]_vars

(***************************************************************************)
(* C34: bucket accesses of the shared DataStore are mutually exclusive:    *)
(* with a producer calling insert (limit set), pop or empty concurrently   *)
(* with senders calling fetch_all, no reader ever observes a bucket longer *)
(* than limit and no fetch_all(adjust=true) call fails.                    *)
(***************************************************************************)
C34_BucketExclusion ==
    /\ shared.observed <= shared.limit
    /\ shared.method = "fetch_all" => shared.err = "none"

\* no reader observes a bucket longer than limit
C34_WithinLimit == shared.observed <= shared.limit

\* no fetch_all(adjust=true) call fails
C34_FetchAllReturns == shared.method = "fetch_all" => shared.err = "none"

(***************************************************************************)
(* SpecRegistry: Streamer.clients.  The accept thread registers a          *)
(* controller (Streamer.controller, line 482), the exception callback of a *)
(* worker pops it (line 477), and the thread that owns the streamer        *)
(* iterates over self.clients.values() in pause, unpause, stop and close   *)
(* (lines 389-423).  streamer.py takes no lock; each action is one         *)
(* statement, or one step of the dict iterator.                            *)
(***************************************************************************)

\* the addresses of the clients that connect
RegistryClients == {"a", "b"}

RegistryInit ==
    registry \in [pc : {"registry"},
                  clients : {{}},
                  method : {"none"},
                  used : {0},
                  atStart : {{}},
                  visited : {{}},
                  err : {"none"}]

\* Streamer.controller, line 482: self.clients[socket.address] = controller
AcceptRegisters ==
    \E a \in RegistryClients \ registry.clients :
        registry' = [registry EXCEPT !.clients = @ \cup {a}]

\* the exception callback, line 477: self.clients.pop(socket.address, None)
WorkerRemoves ==
    \E a \in registry.clients :
        registry' = [registry EXCEPT !.clients = @ \ {a}]

\* pause, unpause, stop or close of the streamer starts its for loop: the
\* iterator of the values view notes the size of the dict
IterationStarts ==
    /\ registry.method = "none"
    /\ \E method \in {"pause", "unpause", "stop", "close"} :
          registry' = [registry EXCEPT
                          !.method = method,
                          !.used = Cardinality(registry.clients),
                          !.atStart = registry.clients,
                          !.visited = {},
                          !.err = "none"]

\* the next step of the loop: the dict iterator raises RuntimeError when the
\* size of the dict is no longer the one it noted, yields a controller not
\* yet visited, or ends the loop
IterationNext ==
    /\ registry.method # "none"
    /\ IF Cardinality(registry.clients) # registry.used
       THEN registry' = [registry EXCEPT !.method = "none",
                                         !.err = "RuntimeError"]
       ELSE IF registry.clients \subseteq registry.visited
       THEN registry' = [registry EXCEPT !.method = "none"]
       ELSE \E a \in registry.clients \ registry.visited :
               registry' = [registry EXCEPT !.visited = @ \cup {a}]

InitRegistry ==
    /\ StoreIdle /\ SockIdle /\ WireIdle /\ StreamIdle /\ AcceptIdle
    /\ QueueIdle /\ MemberIdle /\ TermIdle /\ DelayIdle /\ RaceIdle
    /\ RegistryInit /\ ServiceIdle /\ ReadingIdle
    /\ SessionIdle

NextRegistry ==
    /\ \/ AcceptRegisters
       \/ WorkerRemoves
       \/ IterationStarts
       \/ IterationNext
    /\ UNCHANGED <<storeVars, sockVars, wireVars, streamVars, acceptVars,
                   queueVars, memberVars, termVars, delayVars, raceVars,
                   serviceVars, readingVars, sessionVars>>

SpecRegistry == InitRegistry /\ [][NextRegistry]_vars

(***************************************************************************)
(* C35: mutations of Streamer.clients (registration in controller() on the *)
(* accept thread, removal by a worker's exception callback) are mutually   *)
(* exclusive with one another and with the iterations over the registry in *)
(* Streamer.pause / unpause / stop / close, so no iteration sees the       *)
(* registry change under it.                                               *)
(***************************************************************************)
C35_RegistryExclusion ==
    /\ registry.method # "none" => registry.clients = registry.atStart
    /\ registry.err = "none"

(***************************************************************************)
(* SpecService: interface.py, the timeout of a ServiceInterface.           *)
(* start_timeout starts a thread that runs timeout_loop; the clock         *)
(* advances between the statements of the loop.                            *)
(***************************************************************************)

\* the clock ranges over 0 .. MaxClock
MaxClock == 3

\* start_timeout is called with a duration of 1 .. MaxDuration
MaxDuration == 2

ServiceInit ==
    service \in [pc : {"service"},
                 now : {0},
                 updating : {FALSE},
                 timeout : {FALSE},
                 process : {FALSE},
                 thread : {"none"},
                 duration : {0},
                 deadline : {NoInt},
                 terminated : {NoInt},
                 cancelled : {FALSE}]

\* ServiceInterface.stop_timeout, applied to the record of the service
stop_timeout(s) ==
    [s EXCEPT !.timeout = FALSE,
              !.process = IF s.process /\ s.thread \notin {"none", "dead"}
                          THEN FALSE ELSE @]

\* ServiceInterface.stop: stop_blocking, stop_updating, stop_refreshing,
\* stop_timeout
ServiceInterface_stop(s) == stop_timeout([s EXCEPT !.updating = FALSE])

\* the condition of the while loop of timeout_loop, line 252
timeout_waits(s) == s.timeout /\ s.deadline < s.now

\* time passes
ClockTick ==
    /\ service.now < MaxClock
    /\ service' = [service EXCEPT !.now = @ + 1]

\* start_updating and the first statement of updating_loop
StartUpdating ==
    /\ ~service.updating
    /\ service.terminated = NoInt
    /\ service' = [service EXCEPT !.updating = TRUE]

\* start_timeout(duration): no timeout thread is alive, one is started
StartTimeout ==
    /\ service.thread = "none"
    /\ \E d \in 1..MaxDuration :
          service' = [service EXCEPT !.process = TRUE,
                                     !.thread = "begin",
                                     !.duration = d]

\* timeout_loop, lines 242-250: self._timeout = True, and the duration is
\* made the time at which it ends
LoopBegins ==
    /\ service.thread = "begin"
    /\ service' = [service EXCEPT !.timeout = TRUE,
                                  !.deadline = service.now + service.duration,
                                  !.thread = "test"]

\* timeout_loop, line 252: the test of the while loop
LoopTest ==
    /\ service.thread = "test"
    /\ service' = [service EXCEPT
                      !.thread = IF timeout_waits(service)
                                 THEN "sleep" ELSE "after"]

\* timeout_loop, line 253: time.sleep(self.DELAY)
LoopSleep ==
    /\ service.thread = "sleep"
    /\ service' = [service EXCEPT !.thread = "test"]

\* timeout_loop, lines 256-260: if self.timeout, the flag is cleared and
\* terminate(), which is stop(), is called; the thread ends
LoopEnds ==
    /\ service.thread = "after"
    /\ IF service.timeout
       THEN service' = [ServiceInterface_stop(service) EXCEPT
                           !.terminated = service.now,
                           !.thread = "dead"]
       ELSE service' = [service EXCEPT !.thread = "dead"]

\* stop_timeout() called by the owner of the service
StopTimeout ==
    /\ service.thread \notin {"none", "dead"}
    /\ ~service.cancelled
    /\ service' = [stop_timeout(service) EXCEPT !.cancelled = TRUE]

InitService ==
    /\ StoreIdle /\ SockIdle /\ WireIdle /\ StreamIdle /\ AcceptIdle
    /\ QueueIdle /\ MemberIdle /\ TermIdle /\ DelayIdle /\ RaceIdle
    /\ RegistryIdle /\ ServiceInit /\ ReadingIdle
    /\ SessionIdle

NextService ==
    /\ \/ ClockTick
       \/ StartUpdating
       \/ StartTimeout
       \/ LoopBegins
       \/ LoopTest
       \/ LoopSleep
       \/ LoopEnds
       \/ StopTimeout
    /\ UNCHANGED <<storeVars, sockVars, wireVars, streamVars, acceptVars,
                   queueVars, memberVars, termVars, delayVars, raceVars,
                   registryVars, readingVars, sessionVars>>

SpecService == InitService /\ [][NextService]_vars

(***************************************************************************)
(* C36: after ServiceInterface.start_timeout(d) with d in the future, the  *)
(* service is not stopped before d has elapsed and is stopped (terminate,  *)
(* hence stop) once d has elapsed; a stop_timeout() before expiry prevents *)
(* that termination.                                                       *)
(***************************************************************************)
C36_TimeoutAtExpiry ==
    /\ service.terminated # NoInt => service.terminated >= service.deadline
    /\ service.cancelled => service.terminated = NoInt

\* a stop_timeout() that comes before the loop has ended prevents the
\* termination
C36_StopPrevents ==
    [][service.cancelled /\ service.thread # "after"
          => service'.terminated = service.terminated]_vars

(***************************************************************************)
(* SpecReading: the event set of a ServerSubscriber.  The sender tick      *)
(* (subscribed_stored_data_sender, line 829) passes subscriber.events, the *)
(* set itself, to DataStore.fetch_all, whose for loop (store.py line 185)  *)
(* iterates over it; the receiver of the same controller runs on another   *)
(* thread and changes the set in place (ServerSubscriber.subscribe and     *)
(* unsubscribe, lines 790-806).  Each action is one call of the receiver   *)
(* or one step of the set iterator.                                        *)
(***************************************************************************)

\* subscribe and unsubscribe requests processed in one behaviour
MaxEventRequests == 2

ReadingInit ==
    reading \in [pc : {"reading"},
                 events : SUBSET Keys,
                 requests : {0},
                 tick : {"idle"},
                 used : {0},
                 versions : {{}},
                 read : {{}},
                 err : {"none"}]

\* the subscribe endpoint: subscriber.events.update(events)
ReceiverSubscribes ==
    /\ reading.requests < MaxEventRequests
    /\ \E events \in SUBSET Keys \ {{}} :
          LET after == subscribe(reading.events, events)
          IN  reading' = [reading EXCEPT
                             !.requests = @ + 1,
                             !.events = after,
                             !.versions = IF reading.tick = "idle" THEN @
                                          ELSE @ \cup {after}]

\* the unsubscribe endpoint: subscriber.events.difference_update(events)
ReceiverUnsubscribes ==
    /\ reading.requests < MaxEventRequests
    /\ \E events \in SUBSET Keys \ {{}} :
          LET after == unsubscribe(reading.events, events)
          IN  reading' = [reading EXCEPT
                             !.requests = @ + 1,
                             !.events = after,
                             !.versions = IF reading.tick = "idle" THEN @
                                          ELSE @ \cup {after}]

\* the sender tick calls storage.fetch_all(subscriber.events): the for loop
\* makes the iterator of the set, which notes the size of the set
TickFetchAll ==
    /\ reading.tick \in {"idle", "returned", "raised"}
    /\ reading' = [reading EXCEPT !.tick = "iterating",
                                  !.used = Cardinality(reading.events),
                                  !.versions = {reading.events},
                                  !.read = {},
                                  !.err = "none"]

\* one step of the for loop: the set iterator raises RuntimeError when the
\* size of the set is no longer the one it noted (fetch_all catches only
\* KeyError and ValueError), yields a key it has not yielded, or ends
TickNextKey ==
    /\ reading.tick = "iterating"
    /\ IF Cardinality(reading.events) # reading.used
       THEN reading' = [reading EXCEPT !.tick = "raised",
                                       !.err = "RuntimeError"]
       ELSE IF reading.events \subseteq reading.read
       THEN reading' = [reading EXCEPT !.tick = "returned"]
       ELSE \E key \in reading.events \ reading.read :
               reading' = [reading EXCEPT !.read = @ \cup {key}]

InitReading ==
    /\ StoreIdle /\ SockIdle /\ WireIdle /\ StreamIdle /\ AcceptIdle
    /\ QueueIdle /\ MemberIdle /\ TermIdle /\ DelayIdle /\ RaceIdle
    /\ RegistryIdle /\ ServiceIdle /\ ReadingInit
    /\ SessionIdle

NextReading ==
    /\ \/ ReceiverSubscribes
       \/ ReceiverUnsubscribes
       \/ TickFetchAll
       \/ TickNextKey
    /\ UNCHANGED <<storeVars, sockVars, wireVars, streamVars, acceptVars,
                   queueVars, memberVars, termVars, delayVars, raceVars,
                   registryVars, serviceVars, sessionVars>>

SpecReading == InitReading /\ [][NextReading]_vars

(***************************************************************************)
(* C37: a subscribe or unsubscribe request processed by a controller's     *)
(* receiver while the same controller's sender tick is reading the         *)
(* subscriber's event set never makes the sender tick fail: the tick uses  *)
(* either the event set before the request or the one after it.            *)
(***************************************************************************)
C37_TickNeverFails ==
    /\ reading.err = "none"
    /\ reading.tick = "returned" => reading.read \in reading.versions

\* a tick that no request falls into reads the event set and returns
C37_QuietTickReturns ==
    reading.tick \in {"returned", "raised"}
    /\ Cardinality(reading.versions) = 1
        => reading.err = "none" /\ reading.read \in reading.versions

(***************************************************************************)
(* C38: when the peer closes its TCP connection (every later receive       *)
(* yields empty bytes), the server-side controller eventually terminates - *)
(* its three loops stop, its socket is closed and on_disconnect fires -    *)
(* even if nothing is ever queued for sending to that peer.                *)
(***************************************************************************)
C38_PeerCloseTerminates ==
    wiring.peer = "closed" ~>
        /\ wiring.pc = "terminated"
        /\ wiring.sender = "stopped"
        /\ wiring.receiver = "stopped"
        /\ wiring.queue_socket = "stopped"
        /\ wiring.socket # "open"
        /\ "termination" \in {wiring.performed[i] :
                                 i \in DOMAIN wiring.performed}

\* an empty receive changes none of the controller's operators
C38_EmptyReadKeeps ==
    [][wiring'.empties # wiring.empties =>
          /\ wiring'.receiver = wiring.receiver
          /\ wiring'.sender = wiring.sender
          /\ wiring'.queue_socket = wiring.queue_socket
          /\ wiring'.socket = wiring.socket
          /\ wiring'.pc = wiring.pc]_vars

\* once the send queue has been stopped the controller does terminate
C38_StoppedQueueTerminates ==
    wiring.queue_socket = "stopped" ~> wiring.pc = "terminated"

(***************************************************************************)
(* C39: for Client, Server and ServerSideClient, on_close fires exactly    *)
(* once per transition from open to closed: calling close() again on an    *)
(* already closed non-reusable socket changes no state and does not invoke *)
(* on_close again.                                                         *)
(***************************************************************************)
C39_OnCloseOnce ==
    sockCall.op = "close"
    /\ sock.kind \in {"Client", "Server", "ServerSideClient"} =>
        LET before == sockCall.before
        IN  /\ ~before.closed /\ sock.closed =>
                  sock.on_close = before.on_close + 1
            /\ before.closed /\ ~before.reusable =>
                  /\ sock.on_close = before.on_close
                  /\ sock.closed
                  /\ sock.connection = before.connection
                  /\ sock.connected = before.connected
                  /\ sock.bound = before.bound
                  /\ sock.listening = before.listening

\* the claim for ServerSideClient alone
C39_ServerSideClientOnce ==
    sockCall.op = "close" /\ sock.kind = "ServerSideClient" =>
        LET before == sockCall.before
        IN  /\ ~before.closed /\ sock.closed =>
                  sock.on_close = before.on_close + 1
            /\ before.closed /\ ~before.reusable =>
                  sock.on_close = before.on_close

(***************************************************************************)
(* SpecSession: a ClientSubscriber (pubsub/subscriber.py) and the          *)
(* ServerSubscriber of its connection.  The client's requests travel in    *)
(* order over one TCP stream; the server's receiver handles one per tick   *)
(* with streamer_receive.                                                  *)
(***************************************************************************)

\* requests the client makes in one behaviour
MaxClientRequests == 3

\* ClientSubscriber.subscribe_message / unsubscribe_message: data is
\* list(events), which takes every element out of an iterator
message(name, events) == [name |-> name, data |-> events]

\* what a second pass over the argument yields: the elements again for a
\* list, tuple or set, nothing for an iterator that list() has exhausted
second_pass(events, iterator) == IF iterator THEN {} ELSE events

\* ClientSubscriber.subscribe, lines 135-144: the message is queued, then
\* self._events.update(events)
ClientSubscriber_subscribe(s, events, iterator) ==
    [s EXCEPT !.inflight = Append(@, message("subscribe", events)),
              !.client = subscribe(@, second_pass(events, iterator)),
              !.sent = @ + 1,
              !.exhausted = @ \/ iterator]

\* ClientSubscriber.unsubscribe, lines 146-155
ClientSubscriber_unsubscribe(s, events, iterator) ==
    [s EXCEPT !.inflight = Append(@, message("unsubscribe", events)),
              !.client = unsubscribe(@, second_pass(events, iterator)),
              !.sent = @ + 1,
              !.exhausted = @ \/ iterator]

\* streamer_receive, lines 523-554, for one request: an unauthenticated
\* controller of a streamer that authenticates gets the response
\* "unauthenticated" and no endpoint is called
streamer_receive(s, request) ==
    IF s.authenticate /\ request.name # "authenticate" /\ ~s.authenticated
    THEN [s EXCEPT !.rejected = TRUE]
    ELSE CASE request.name = "subscribe" ->
                [s EXCEPT !.server = subscribe(@, request.data)]
           [] request.name = "unsubscribe" ->
                [s EXCEPT !.server = unsubscribe(@, request.data)]
           [] OTHER -> [s EXCEPT !.authenticated = TRUE]

\* Streamer.controller: authenticated=self.authenticate is None
SessionInit ==
    \E authenticate \in BOOLEAN :
        session = [pc |-> "session",
                   authenticate |-> authenticate,
                   authenticated |-> ~authenticate,
                   client |-> {},
                   server |-> {},
                   inflight |-> <<>>,
                   sent |-> 0,
                   rejected |-> FALSE,
                   exhausted |-> FALSE]

ClientSubscribes ==
    /\ session.sent < MaxClientRequests
    /\ \E events \in SUBSET Keys \ {{}}, iterator \in BOOLEAN :
          session' = ClientSubscriber_subscribe(session, events, iterator)

ClientUnsubscribes ==
    /\ session.sent < MaxClientRequests
    /\ \E events \in SUBSET Keys \ {{}}, iterator \in BOOLEAN :
          session' = ClientSubscriber_unsubscribe(session, events, iterator)

\* the client sends an authenticate request that the server accepts
ClientAuthenticates ==
    /\ session.sent < MaxClientRequests
    /\ session.authenticate
    /\ session' = [session EXCEPT
                      !.inflight = Append(@, message("authenticate", {})),
                      !.sent = @ + 1]

\* a tick of the server's receiver handles the oldest request
ServerReceives ==
    /\ session.inflight # <<>>
    /\ session' = streamer_receive(
                      [session EXCEPT !.inflight = Tail(@)],
                      Head(session.inflight))

InitSession ==
    /\ StoreIdle /\ SockIdle /\ WireIdle /\ StreamIdle /\ AcceptIdle
    /\ QueueIdle /\ MemberIdle /\ TermIdle /\ DelayIdle /\ RaceIdle
    /\ RegistryIdle /\ ServiceIdle /\ ReadingIdle /\ SessionInit

NextSession ==
    /\ \/ ClientSubscribes
       \/ ClientUnsubscribes
       \/ ClientAuthenticates
       \/ ServerReceives
    /\ UNCHANGED <<storeVars, sockVars, wireVars, streamVars, acceptVars,
                   queueVars, memberVars, termVars, delayVars, raceVars,
                   registryVars, serviceVars, readingVars>>

SpecSession == InitSession /\ [][NextSession]_vars

(***************************************************************************)
(* C40: once every message enqueued by ClientSubscriber.subscribe /        *)
(* unsubscribe has been sent and processed by the server, the client's     *)
(* local events set equals the events set of the server-side               *)
(* ServerSubscriber of that connection.                                    *)
(***************************************************************************)
C40_EventsAgree ==
    session.inflight = <<>> => session.client = session.server

\* the sets agree when no request was refused and every argument could be
\* iterated twice
C40_AgreeWhenAccepted ==
    session.inflight = <<>> /\ ~session.rejected /\ ~session.exhausted
        => session.client = session.server

====
